---- MODULE Spec2Model ----
(***************************************************************************)
(* State-machine model of MCPManager (src/src/core/client/manager.ts).    *)
(*                                                                         *)
(* JavaScript runs one continuation at a time, so every action below is   *)
(* the code that runs between two suspension points (await) of one async  *)
(* method.  The calls in flight are kept in the bag `tasks`; the           *)
(* initializeFromConfig call in flight is kept in `init`, and its         *)
(* connectServer calls are tasks marked `parent`.  `last` is what the     *)
(* step just taken handed back to a caller, if it settled a call.         *)
(*                                                                         *)
(* AnthropicService.completeTask (src/src/ai/llm/services/anthropic.ts)   *)
(* is modelled the same way, with the call in flight kept in `llm`.       *)
(*                                                                         *)
(* OpenAIMessageFormatter (src/src/ai/llm/messages/formatters/openai.ts)  *)
(* is modelled as operators on histories, and the message/context manager *)
(* of a conversation, its creation and its reset, in `ctx`.               *)
(*                                                                         *)
(* SaikiAgent.switchLLM (src/unnamed/part_003) is modelled in `agent`,    *)
(* and LocalBlobBackend (src/unnamed/part_005) with the files of its      *)
(* store directory in `blob`.                                              *)
(***************************************************************************)
EXTENDS Integers, FiniteSets, Sequences, Bags, TLC

\* ---------------------------------------------------------------- bounds
\* calls of the manager that can be in flight at the same time
MaxTasks == 2
\* MCPClient instances per server name that can be referenced at a time
MaxInst == 2
\* messages in a history handed to the formatter or kept by a manager
MaxHistory == 4

\* ------------------------------------------------------- the environment
\* configured server names, in the order of Object.entries(serverConfigs)
ServerOrder == <<"fs", "docs">>
Servers == {ServerOrder[k] : k \in 1..Len(ServerOrder)}

ToolNames == {"read_file", "search"}
PromptNames == {"summarize"}
ResourceUris == {"doc://index"}

\* what a server's client reports on discovery (IMCPClient.getTools,
\* listPrompts, listResources)
ToolsOf(s) == IF s = "fs" THEN {"read_file", "search"} ELSE {"search"}
PromptsOf(s) == IF s = "fs" THEN {"summarize"} ELSE {}
ResourcesOf(s) == IF s = "docs" THEN {"doc://index"} ELSE {}

\* the error message client.connect fails with, when it fails
ConnectErrorOf(s) == IF s = "fs" THEN "ENOENT" ELSE "ETIMEDOUT"

\* a client instance is identified by the server it was created for and an
\* instance number; identity (===) is what the caches compare
ClientIds == Servers \X (1..MaxInst)
NoClient == <<"none", 0>>
NoError == "none"

VARIABLES
    clients,             \* Map<string, IMCPClient>: name -> client
    connectionErrors,    \* { [name]: message }
    toolToClientMap,     \* Map<toolName, IMCPClient>
    promptToClientMap,   \* Map<promptName, IMCPClient>
    resourceToClientMap, \* Map<resourceUri, IMCPClient>
    tasks,               \* calls of async methods in flight
    init,                \* the initializeFromConfig call in flight
    last,                \* the outcome of the call the last step settled
    overlap,             \* whether callers call while another call is in flight
    llm,                 \* the completeTask call of the AnthropicService
    ctx,                 \* the conversation context and the last call on it
    agent,               \* the SaikiAgent: its LLM service and LLM config
    blob                 \* the LocalBlobBackend and the files of its store

vars == <<clients, connectionErrors, toolToClientMap, promptToClientMap,
          resourceToClientMap, tasks, init, last, overlap, llm, ctx,
          agent, blob>>
caches == <<toolToClientMap, promptToClientMap, resourceToClientMap>>
manager == <<clients, connectionErrors, toolToClientMap, promptToClientMap,
             resourceToClientMap>>

EmptyToolMap == [t \in ToolNames |-> NoClient]

NoTask == [op |-> "none", pc |-> "start", name |-> "none", client |-> NoClient,
           parent |-> FALSE, tool |-> "none", asks |-> 0, gate |-> "none",
           calls |-> 0, snap |-> EmptyToolMap, todo |-> {}, out |-> {},
           names |-> {}, failed |-> {}]

NoNames == [n \in Servers |-> NoError]
NoMode == [n \in Servers |-> "absent"]

\* mode: connectionMode per configured server; pending: connectPromises not
\* settled; succ: successfulConnections; connected: the servers whose
\* client.connect succeeded in this call; connFailed: those whose
\* client.connect failed, with the message
NoInit == [st |-> "idle", mode |-> NoMode, pending |-> {}, succ |-> {},
           connected |-> {}, connFailed |-> NoNames]

\* what a caller reads off the manager in one continuation: the client set
\* and the entries of the three caches
NoSeen == [clients |-> [n \in Servers |-> NoClient], tools |-> EmptyToolMap,
           prompts |-> [p \in PromptNames |-> NoClient],
           resources |-> [r \in ResourceUris |-> NoClient]]

\* asks: calls of requestConfirmation; gate: its answer; calls: calls of
\* client.callTool; out: the keys of the ToolSet returned; failed: the
\* servers whose client.disconnect rejected; err: the servers the aggregate
\* error names, with the message
NoLast == [op |-> "none", name |-> "none", tool |-> "none", client |-> NoClient,
           asks |-> 0, gate |-> "none", calls |-> 0, res |-> "none", out |-> {},
           failed |-> {}, seen |-> NoSeen,
           mode |-> NoMode, succ |-> {}, connected |-> {},
           connFailed |-> NoNames, err |-> NoNames]

\* iterationCount, toolUses: the locals of completeTask; next: the position
\* of the for loop over toolUses; appended: the messages completeTask has
\* appended to the message log since the last response of the provider
\* arrived (it only ever appends); failed: the positions in toolUses of the
\* tool uses whose executeTool rejected; res: what the call returned;
\* events: what the call has emitted on the event emitter since the last
\* response of the provider arrived (or since the call began), oldest
\* first; terminal: the 'llmservice:response' and 'llmservice:error' events
\* the call has emitted in all
NoLLM == [pc |-> "idle", iterationCount |-> 0, toolUses |-> <<>>, next |-> 0,
          appended |-> <<>>, failed |-> {},
          res |-> "none", events |-> <<>>, terminal |-> <<>>]

\* a value that is null or undefined in the program
Null == "null"

\* history, systemPrompt, maxTokens: the message log, the system prompt and
\* the token budget of the manager; op: the call the last step made on the
\* context or the formatter; input, prompt: the history and the system
\* prompt that call handed to the formatter; formatted, value, tokensUsed:
\* what it returned; threw: whether it threw instead; rounds: the number of
\* times the compression pass of that call cut the history; cleared: the
\* number of messages that call removed from the log; path, modelMax:
\* the code that created the manager and the maximum token count of
\* the model it was created for; emitted: the events emitted by that call, in order, each with
\* the length of the message log at the time
NoCtx == [history |-> <<>>, systemPrompt |-> Null, maxTokens |-> 0,
          op |-> "none", input |-> <<>>, prompt |-> Null, formatted |-> <<>>,
          value |-> Null, threw |-> FALSE, tokensUsed |-> 0, emitted |-> <<>>,
          path |-> "none", modelMax |-> 0, rounds |-> 0, cleared |-> 0]

\* the LLM configurations handed to the agent, and the routers
LLMConfigs == [provider : {"openai", "anthropic", "google", "cohere"},
               apiKey : {"", "sk-1"},
               model : {"small", "large"}]
Routers == {"vercel", "in-built"}
InitialLLMConfig == [provider |-> "openai", apiKey |-> "sk-1", model |-> "small"]
\* an ILLMService: the configuration and router it was created from and the
\* message manager it was given
Service(config, router, messageManager) ==
    [config |-> config, router |-> router, messageManager |-> messageManager]
\* the SaikiAgent after construction: _llmService, configManager's llm
\* config, the message manager; res, emitted: whether the last switchLLM
\* returned or threw, and the events it emitted
NoAgent == [llmService |-> Service(InitialLLMConfig, "in-built", "messageManager"),
            llmConfig |-> InitialLLMConfig,
            messageManager |-> "messageManager",
            op |-> "none", res |-> "none", emitted |-> <<>>]

\* the buffers callers store, as byte sequences, and the ids of their blobs
Buffers == {<<7>>, <<7, 8>>, <<7, 8, 9>>}
\* createHash('sha256').update(buffer).digest('hex').substring(0, 16)
Hash(buffer) == <<"sha256", buffer>>
BlobIds == {Hash(buffer) : buffer \in Buffers}
\* a file is the one-element sequence of its content; NoFile: ENOENT
NoFile == <<>>
\* the resolved configuration: maxBlobSize, and maxTotalSize, where 0 turns
\* the total size check off
BlobConfigs == [maxBlobSize : {2, 3}, maxTotalSize : {0, 4, 6}]
NoBlobResult == [op |-> "none", res |-> "none", input |-> <<>>, id |-> <<>>,
                 metadata |-> [id |-> <<>>, originalName |-> "none", size |-> 0,
                               hash |-> <<>>]]
\* a LocalBlobBackend after construction on an empty store directory: dat,
\* meta: the files <id>.dat and <id>.meta.json
NoBlob == [config |-> [maxBlobSize |-> 3, maxTotalSize |-> 4],
           connected |-> FALSE,
           dat |-> [id \in BlobIds |-> NoFile],
           meta |-> [id \in BlobIds |-> NoFile],
           last |-> NoBlobResult]

Init ==
    /\ clients = [n \in Servers |-> NoClient]
    /\ connectionErrors = [n \in Servers |-> NoError]
    /\ toolToClientMap = EmptyToolMap
    /\ promptToClientMap = [p \in PromptNames |-> NoClient]
    /\ resourceToClientMap = [r \in ResourceUris |-> NoClient]
    /\ tasks = EmptyBag
    /\ init = NoInit
    /\ last = NoLast
    /\ overlap = FALSE
    /\ llm = NoLLM
    /\ agent = NoAgent
    /\ blob = NoBlob
    /\ ctx = NoCtx

\* ------------------------------------------------------------- helpers
InFlight == BagToSet(tasks)
\* room for k more calls in flight
Room(k) == BagCardinality(tasks) + k <= MaxTasks
Quiescent == tasks = EmptyBag /\ init.st = "idle"
\* a caller makes a call now: the one driving loop awaits each call before
\* it makes the next, independent callers do not
MayCall == overlap \/ Quiescent

\* the bag of calls when call t is started, goes on as u, or settles
Started(t) == tasks (+) SetToBag({t})
Resumed(t, u) == (tasks (-) SetToBag({t})) (+) SetToBag({u})
Finished(t) == tasks (-) SetToBag({t})

\* the step settles no call of a caller
Quiet == last' = NoLast

Registered == {n \in Servers : clients[n] # NoClient}

Range(f) == {f[x] : x \in DOMAIN f}

\* a client instance some object still holds
Referenced(c) ==
    \/ c \in Range(clients)
    \/ c \in Range(toolToClientMap) \cup Range(promptToClientMap)
               \cup Range(resourceToClientMap)
    \/ \E t \in InFlight : t.client = c \/ c \in Range(t.snap)

\* new MCPClient(): an instance nothing refers to yet
CanCreate(n) == \E k \in 1..MaxInst : ~Referenced(<<n, k>>)
NewClient(n) == <<n, CHOOSE k \in 1..MaxInst :
                        /\ ~Referenced(<<n, k>>)
                        /\ \A j \in 1..(k - 1) : Referenced(<<n, j>>)>>

\* clearClientCache(clientName) on one cache map, given the client set
ClearClientCache(cl, cacheMap, clientName) ==
    IF cl[clientName] = NoClient
    THEN cacheMap
    ELSE [k \in DOMAIN cacheMap |->
            IF cacheMap[k] = cl[clientName] THEN NoClient ELSE cacheMap[k]]

\* a cache that keeps the entry a name already has
CacheSetIfAbsent(cacheMap, keys, client) ==
    [k \in DOMAIN cacheMap |->
        IF k \in keys /\ cacheMap[k] = NoClient THEN client ELSE cacheMap[k]]

\* the for/forEach loops of updateClientCache on one cache map
CacheSet(cacheMap, keys, client) ==
    [k \in DOMAIN cacheMap |-> IF k \in keys THEN client ELSE cacheMap[k]]

\* a registerClient that leaves the recorded connection error of the name
RegisterEffectKeepsError(name, client) ==
    /\ toolToClientMap' = ClearClientCache(clients, toolToClientMap, name)
    /\ promptToClientMap' = ClearClientCache(clients, promptToClientMap, name)
    /\ resourceToClientMap' = ClearClientCache(clients, resourceToClientMap, name)
    /\ clients' = [clients EXCEPT ![name] = client]
    /\ UNCHANGED connectionErrors

\* registerClient(name, client)
RegisterEffect(name, client) ==
    /\ toolToClientMap' = ClearClientCache(clients, toolToClientMap, name)
    /\ promptToClientMap' = ClearClientCache(clients, promptToClientMap, name)
    /\ resourceToClientMap' = ClearClientCache(clients, resourceToClientMap, name)
    /\ clients' = [clients EXCEPT ![name] = client]
    /\ connectionErrors' = [connectionErrors EXCEPT ![name] = NoError]

\* what the caller of the call t sees when it settles with `result`
Outcome(t, result) ==
    [NoLast EXCEPT !.op = t.op, !.name = t.name, !.tool = t.tool,
                   !.client = t.client, !.asks = t.asks, !.gate = t.gate,
                   !.calls = t.calls,
                   !.out = t.out, !.failed = t.failed, !.res = result]

\* .then / .catch of connectPromise in initializeFromConfig
InitResolved(name) ==
    [init EXCEPT !.succ = @ \cup {name}, !.pending = @ \ {name},
                 !.connected = @ \cup {name}]
InitRejected(name, cause) ==
    [init EXCEPT !.pending = @ \ {name}, !.connFailed[name] = cause]


\* what the client instance c answers when discovery succeeds
GetTools(c) == ToolsOf(c[1])
ListPrompts(c) == PromptsOf(c[1])
ListResources(c) == ResourcesOf(c[1])

\* a catch block that logs the failure and does not record it
RecordConnectionErrorDropped(errs, name, cause) == errs

\* connectServer's catch block: this.connectionErrors[name] = errorMsg
RecordConnectionError(errs, name, cause) == [errs EXCEPT ![name] = cause]

\* the call t settles, having become u; the caller of a connectServer made
\* by initializeFromConfig is its .then / .catch
SettleAs(t, u, result) ==
    /\ tasks' = Finished(t)
    /\ IF t.parent
       THEN /\ init' = IF result = "ok" THEN InitResolved(t.name)
                       ELSE InitRejected(t.name, ConnectErrorOf(t.name))
            /\ Quiet
       ELSE /\ last' = Outcome(u, result)
            /\ UNCHANGED init
Settle(t, result) == SettleAs(t, t, result)

\* the call t goes on as u
Continue(t, u) ==
    /\ tasks' = Resumed(t, u)
    /\ Quiet
    /\ UNCHANGED init

\* ---------------------------------------------------------- connectServer
\* connectServer(name, config) up to await client.connect(...), for a name
\* that is not registered: a client is created and starts connecting
ConnectTask(n, par) ==
    [NoTask EXCEPT !.op = "connectServer", !.name = n, !.parent = par,
                   !.pc = "connecting", !.client = NewClient(n)]

\* connectServer without the check this.clients.has(name): it creates a client
\* and connects for a registered name too
ConnectServerAlways(n) ==
    /\ MayCall
    /\ Room(1)
    /\ CanCreate(n)
    /\ tasks' = Started(ConnectTask(n, FALSE))
    /\ Quiet
    /\ UNCHANGED <<manager, init>>
    /\ UNCHANGED <<overlap, llm, ctx, agent, blob>>

\* connectServer(name, config); it returns at once for a registered name
ConnectServer(n) ==
    /\ MayCall
    /\ IF clients[n] # NoClient
       THEN /\ last' = Outcome([NoTask EXCEPT !.op = "connectServer", !.name = n], "ok")
            /\ UNCHANGED tasks
       ELSE /\ Room(1)
            /\ CanCreate(n)
            /\ tasks' = Started(ConnectTask(n, FALSE))
            /\ Quiet
    /\ UNCHANGED <<manager, init>>
    /\ UNCHANGED <<overlap, llm, ctx, agent, blob>>

\* a connectServer whose catch block leaves the client of the failed attempt
\* in the client set
ConnectSettleKeepsClient(t) ==
    /\ t.op = "connectServer" /\ t.pc = "connecting"
    /\ \/ /\ RegisterEffect(t.name, t.client)
          /\ Continue(t, [t EXCEPT !.pc = "getTools"])
       \/ /\ connectionErrors' =
                RecordConnectionError(connectionErrors, t.name, ConnectErrorOf(t.name))
          /\ clients' = [clients EXCEPT ![t.name] = t.client]
          /\ Settle(t, "ConnectError")
          /\ UNCHANGED caches
    /\ UNCHANGED <<overlap, llm, ctx, agent, blob>>

\* await client.connect(config, name) settles: registerClient and the call
\* of updateClientCache up to client.getTools(), or the catch block
ConnectSettle(t) ==
    /\ t.op = "connectServer" /\ t.pc = "connecting"
    /\ \/ /\ RegisterEffect(t.name, t.client)
          /\ Continue(t, [t EXCEPT !.pc = "getTools"])
       \/ /\ connectionErrors' =
                RecordConnectionError(connectionErrors, t.name, ConnectErrorOf(t.name))
          /\ clients' = [clients EXCEPT ![t.name] = NoClient]
          /\ Settle(t, "ConnectError")
          /\ UNCHANGED caches
    /\ UNCHANGED <<overlap, llm, ctx, agent, blob>>

\* an updateClientCache that lets the failure of client.getTools() reach the
\* catch block of connectServer
DiscoverToolsRejects(t) ==
    /\ t.op = "connectServer" /\ t.pc = "getTools"
    /\ \/ /\ toolToClientMap' = CacheSet(toolToClientMap, GetTools(t.client), t.client)
          /\ Continue(t, [t EXCEPT !.pc = "listPrompts"])
          /\ UNCHANGED <<clients, connectionErrors>>
       \/ /\ connectionErrors' =
                RecordConnectionError(connectionErrors, t.name, ConnectErrorOf(t.name))
          /\ clients' = [clients EXCEPT ![t.name] = NoClient]
          /\ Settle(t, "ConnectError")
          /\ UNCHANGED toolToClientMap
    /\ UNCHANGED <<promptToClientMap, resourceToClientMap>>
    /\ UNCHANGED <<overlap, llm, ctx, agent, blob>>

\* await client.getTools() settles in updateClientCache: the tools are
\* cached, or updateClientCache returns and connectServer resolves
DiscoverTools(t) ==
    /\ t.op = "connectServer" /\ t.pc = "getTools"
    /\ \/ /\ toolToClientMap' = CacheSet(toolToClientMap, GetTools(t.client), t.client)
          /\ Continue(t, [t EXCEPT !.pc = "listPrompts"])
       \/ /\ Settle(t, "ok")
          /\ UNCHANGED toolToClientMap
    /\ UNCHANGED <<clients, connectionErrors, promptToClientMap, resourceToClientMap>>
    /\ UNCHANGED <<overlap, llm, ctx, agent, blob>>

\* await client.listPrompts() settles
DiscoverPrompts(t) ==
    /\ t.op = "connectServer" /\ t.pc = "listPrompts"
    /\ \/ promptToClientMap' = CacheSet(promptToClientMap, ListPrompts(t.client), t.client)
       \/ UNCHANGED promptToClientMap
    /\ Continue(t, [t EXCEPT !.pc = "listResources"])
    /\ UNCHANGED <<clients, connectionErrors, toolToClientMap, resourceToClientMap>>
    /\ UNCHANGED <<overlap, llm, ctx, agent, blob>>

\* await client.listResources() settles; connectServer resolves
DiscoverResources(t) ==
    /\ t.op = "connectServer" /\ t.pc = "listResources"
    /\ \/ resourceToClientMap' = CacheSet(resourceToClientMap, ListResources(t.client), t.client)
       \/ UNCHANGED resourceToClientMap
    /\ Settle(t, "ok")
    /\ UNCHANGED <<clients, connectionErrors, toolToClientMap, promptToClientMap>>
    /\ UNCHANGED <<overlap, llm, ctx, agent, blob>>

\* registerClient(name, client) called with a client built by the caller
RegisterClient(n) ==
    /\ MayCall
    /\ CanCreate(n)
    /\ RegisterEffect(n, NewClient(n))
    /\ last' = Outcome([NoTask EXCEPT !.op = "registerClient", !.name = n,
                                      !.client = NewClient(n)], "ok")
    /\ UNCHANGED <<tasks, init>>
    /\ UNCHANGED <<overlap, llm, ctx, agent, blob>>

\* ------------------------------------------------- initializeFromConfig
Configs == [Servers -> {"absent", "strict", "lenient"}]
Configured(mode) == {n \in Servers : mode[n] # "absent"}

\* the filter applied to every configured server, whatever its mode
FailedServersOfAnyMode(mode, succ) == {n \in Servers : mode[n] # "absent" /\ n \notin succ}

\* a default that makes a server without a connection mode a strict one
EffectiveModeDefaultStrict(connectionMode) ==
    IF connectionMode = "unset" THEN "strict" ELSE connectionMode

\* config.connectionMode || 'lenient'
EffectiveMode(connectionMode) ==
    IF connectionMode = "unset" THEN "lenient" ELSE connectionMode

\* server configurations in which a server may also come without a
\* connection mode
ConfigsWithUnset == [Servers -> {"absent", "strict", "lenient", "unset"}]

\* strictServers.filter(name => !successfulConnections.includes(name))
FailedStrictServers(mode, succ) ==
    {n \in Servers : /\ mode[n] # "absent"
                     /\ EffectiveMode(mode[n]) = "strict"
                     /\ n \notin succ}

\* a join that gives up waiting as soon as one connect attempt has failed
AllSettledOrOneFailed(pending) ==
    pending = {} \/ \E n \in Servers : init.connFailed[n] # NoError

\* await Promise.all(connectionPromises) is over
AllSettled(pending) == pending = {}

\* initializeFromConfig(serverConfigs) up to await Promise.all: an empty
\* configuration returns at once; else the loop over
\* Object.entries(serverConfigs) makes every connectServer call, each up to
\* its first await (a call for a registered name has returned by then)
InitializeFromConfig(mode) ==
    LET need == {n \in Configured(mode) : clients[n] = NoClient} IN
    /\ MayCall
    /\ init.st = "idle"
    /\ IF Configured(mode) = {}
       THEN /\ last' = [NoLast EXCEPT !.op = "initializeFromConfig", !.res = "ok"]
            /\ UNCHANGED <<tasks, init>>
       ELSE /\ Room(Cardinality(need))
            /\ \A n \in need : CanCreate(n)
            /\ init' = [NoInit EXCEPT !.st = "running", !.mode = mode,
                                      !.pending = need,
                                      !.succ = Configured(mode) \ need]
            /\ tasks' = tasks (+) SetToBag({ConnectTask(n, TRUE) : n \in need})
            /\ Quiet
    /\ UNCHANGED manager
    /\ UNCHANGED <<overlap, llm, ctx, agent, blob>>

\* the aggregate error: `${name}: ${connectionErrors[name] || 'Unknown error'}`
\* for every failed strict server
StrictErrors(failedStrictServers) ==
    [n \in Servers |->
        IF n \notin failedStrictServers THEN NoError
        ELSE IF connectionErrors[n] # NoError THEN connectionErrors[n]
        ELSE "Unknown error"]

\* the code after await Promise.all(connectionPromises)
InitJoin ==
    /\ init.st = "running"
    /\ AllSettled(init.pending)
    /\ LET failedStrictServers == FailedStrictServers(init.mode, init.succ)
           seen == [NoLast EXCEPT !.op = "initializeFromConfig",
                                  !.mode = init.mode, !.succ = init.succ,
                                  !.connected = init.connected,
                                  !.connFailed = init.connFailed]
       IN last' = IF failedStrictServers # {}
                  THEN [seen EXCEPT !.res = "AggregateConnectError",
                                    !.err = StrictErrors(failedStrictServers)]
                  ELSE [seen EXCEPT !.res = "ok"]
    /\ init' = NoInit
    /\ UNCHANGED <<manager, tasks>>
    /\ UNCHANGED <<overlap, llm, ctx, agent, blob>>

\* ------------------------------------------------------------ removeClient
\* removeClient(name) up to await client.disconnect(); for a name without a
\* client only the recorded connection error is cleared
RemoveClient(n) ==
    LET t == [NoTask EXCEPT !.op = "removeClient", !.name = n] IN
    /\ MayCall
    /\ IF clients[n] # NoClient
       THEN /\ Room(1)
            /\ tasks' = Started([t EXCEPT !.pc = "disconnecting", !.client = clients[n]])
            /\ Quiet
            /\ UNCHANGED connectionErrors
       ELSE /\ connectionErrors' = [connectionErrors EXCEPT ![n] = NoError]
            /\ last' = Outcome(t, "ok")
            /\ UNCHANGED tasks
    /\ UNCHANGED <<clients, caches, init>>
    /\ UNCHANGED <<overlap, llm, ctx, agent, blob>>

\* removeClient without the try/catch around client.disconnect(): a
\* rejection is propagated and the client stays
RemoveClientFinishPropagates(t) ==
    LET deleted == [clients EXCEPT ![t.name] = NoClient] IN
    /\ t.op = "removeClient" /\ t.pc = "disconnecting"
    /\ \/ /\ clients' = deleted
          /\ toolToClientMap' = ClearClientCache(deleted, toolToClientMap, t.name)
          /\ promptToClientMap' = ClearClientCache(deleted, promptToClientMap, t.name)
          /\ resourceToClientMap' = ClearClientCache(deleted, resourceToClientMap, t.name)
          /\ connectionErrors' = [connectionErrors EXCEPT ![t.name] = NoError]
          /\ Settle(t, "ok")
       \/ /\ SettleAs(t, [t EXCEPT !.failed = {t.name}], "DisconnectError")
          /\ UNCHANGED manager
    /\ UNCHANGED <<overlap, llm, ctx, agent, blob>>

\* client.disconnect() settled (resolved, or rejected and logged):
\* this.clients.delete(name); this.clearClientCache(name); then the
\* connection error is cleared
RemoveClientFinish(t) ==
    LET deleted == [clients EXCEPT ![t.name] = NoClient] IN
    /\ t.op = "removeClient" /\ t.pc = "disconnecting"
    /\ clients' = deleted
    /\ toolToClientMap' = ClearClientCache(deleted, toolToClientMap, t.name)
    /\ promptToClientMap' = ClearClientCache(deleted, promptToClientMap, t.name)
    /\ resourceToClientMap' = ClearClientCache(deleted, resourceToClientMap, t.name)
    /\ connectionErrors' = [connectionErrors EXCEPT ![t.name] = NoError]
    /\ \E rejected \in BOOLEAN :
         SettleAs(t, [t EXCEPT !.failed = IF rejected THEN {t.name} ELSE {}], "ok")
    /\ UNCHANGED <<overlap, llm, ctx, agent, blob>>

\* ----------------------------------------------------------- disconnectAll
\* disconnectAll() up to await Promise.all(disconnectPromises): disconnect
\* is called on every client of the client set
DisconnectAll ==
    /\ MayCall
    /\ Room(1)
    /\ tasks' = Started([NoTask EXCEPT !.op = "disconnectAll", !.pc = "disconnecting",
                                       !.names = Registered])
    /\ Quiet
    /\ UNCHANGED <<manager, init>>
    /\ UNCHANGED <<overlap, llm, ctx, agent, blob>>

\* disconnectAll without the .catch on each disconnect: a rejection rejects
\* Promise.all, and the maps are not cleared
DisconnectAllFinishPropagates(t) ==
    /\ t.op = "disconnectAll" /\ t.pc = "disconnecting"
    /\ \E failed \in SUBSET t.names :
         IF failed = {}
         THEN /\ clients' = [n \in Servers |-> NoClient]
              /\ connectionErrors' = [n \in Servers |-> NoError]
              /\ toolToClientMap' = EmptyToolMap
              /\ promptToClientMap' = [p \in PromptNames |-> NoClient]
              /\ resourceToClientMap' = [r \in ResourceUris |-> NoClient]
              /\ Settle(t, "ok")
         ELSE /\ SettleAs(t, [t EXCEPT !.failed = failed], "DisconnectError")
              /\ UNCHANGED manager
    /\ UNCHANGED <<overlap, llm, ctx, agent, blob>>

\* every disconnect settled (the rejections of the clients in `failed` are
\* logged by their .catch): clear the maps
DisconnectAllFinish(t) ==
    /\ t.op = "disconnectAll" /\ t.pc = "disconnecting"
    /\ clients' = [n \in Servers |-> NoClient]
    /\ connectionErrors' = [n \in Servers |-> NoError]
    /\ toolToClientMap' = EmptyToolMap
    /\ promptToClientMap' = [p \in PromptNames |-> NoClient]
    /\ resourceToClientMap' = [r \in ResourceUris |-> NoClient]
    /\ \E failed \in SUBSET t.names : SettleAs(t, [t EXCEPT !.failed = failed], "ok")
    /\ UNCHANGED <<overlap, llm, ctx, agent, blob>>

\* ------------------------------------------------------------- executeTool
\* getToolClient(toolName)
GetToolClient(toolName) == toolToClientMap[toolName]

\* executeTool without the check of the looked-up client
ClientFoundAlways(client) == TRUE

\* if (!client) throw new Error(`No client found for tool: ...`)
ClientFound(client) == client # NoClient

\* executeTool that calls client.callTool without asking for confirmation
ExecuteToolUngated(toolName) ==
    LET client == GetToolClient(toolName)
        t == [NoTask EXCEPT !.op = "executeTool", !.tool = toolName,
                            !.client = client]
    IN
    /\ MayCall
    /\ IF ~ClientFound(client)
       THEN /\ last' = Outcome(t, "ToolNotFound")
            /\ UNCHANGED tasks
       ELSE /\ Room(1)
            /\ tasks' = Started([t EXCEPT !.pc = "calling", !.calls = @ + 1])
            /\ Quiet
    /\ UNCHANGED <<manager, init>>
    /\ UNCHANGED <<overlap, llm, ctx, agent, blob>>

\* executeTool(toolName, args, sessionId) up to await requestConfirmation:
\* it throws when no client is found, else asks the confirmation provider
ExecuteTool(toolName) ==
    LET client == GetToolClient(toolName)
        t == [NoTask EXCEPT !.op = "executeTool", !.tool = toolName,
                            !.client = client]
    IN
    /\ MayCall
    /\ IF ~ClientFound(client)
       THEN /\ last' = Outcome(t, "ToolNotFound")
            /\ UNCHANGED tasks
       ELSE /\ Room(1)
            /\ tasks' = Started([t EXCEPT !.pc = "confirming", !.asks = @ + 1])
            /\ Quiet
    /\ UNCHANGED <<manager, init>>
    /\ UNCHANGED <<overlap, llm, ctx, agent, blob>>

\* executeTool that ignores the answer of the confirmation provider
DeniedNever(approved) == FALSE

\* if (!approved) throw new ToolExecutionDeniedError(...)
Denied(approved) == ~approved

\* a manager that lets one call at a time go on: the answer of the
\* confirmation provider is taken up only when no other call is in flight
ExecuteToolConfirmExclusive(t) ==
    /\ t.op = "executeTool" /\ t.pc = "confirming"
    /\ tasks = SetToBag({t})
    /\ \E approved \in BOOLEAN :
         LET u == [t EXCEPT !.gate = IF approved THEN "approved" ELSE "denied"] IN
         IF Denied(approved)
         THEN SettleAs(t, u, "ExecutionDenied")
         ELSE Continue(t, [u EXCEPT !.pc = "calling", !.calls = @ + 1])
    /\ UNCHANGED manager
    /\ UNCHANGED <<overlap, llm, ctx, agent, blob>>

\* requestConfirmation returned `approved`: throw the denial, or call
\* client.callTool(toolName, args)
ExecuteToolConfirm(t) ==
    /\ t.op = "executeTool" /\ t.pc = "confirming"
    /\ \E approved \in BOOLEAN :
         LET u == [t EXCEPT !.gate = IF approved THEN "approved" ELSE "denied"] IN
         IF Denied(approved)
         THEN SettleAs(t, u, "ExecutionDenied")
         ELSE Continue(t, [u EXCEPT !.pc = "calling", !.calls = @ + 1])
    /\ UNCHANGED manager
    /\ UNCHANGED <<overlap, llm, ctx, agent, blob>>

\* client.callTool settled with a result or with a transport error
ExecuteToolReturn(t) ==
    /\ t.op = "executeTool" /\ t.pc = "calling"
    /\ \E r \in {"result", "TransportError"} : Settle(t, r)
    /\ UNCHANGED manager
    /\ UNCHANGED <<overlap, llm, ctx, agent, blob>>

\* -------------------------------------------------------------- getAllTools
\* getAllTools() up to its first await: the entries of toolToClientMap are
\* copied (Array.from) and client.getTools() of the first one is called
GetAllTools ==
    LET t == [NoTask EXCEPT !.op = "getAllTools"]
        entries == {k \in ToolNames : toolToClientMap[k] # NoClient}
    IN
    /\ MayCall
    /\ IF entries = {}
       THEN /\ last' = Outcome(t, "ok")
            /\ UNCHANGED tasks
       ELSE /\ Room(1)
            /\ tasks' = Started([t EXCEPT !.pc = "getTools", !.snap = toolToClientMap,
                                          !.todo = entries])
            /\ Quiet
    /\ UNCHANGED <<manager, init>>
    /\ UNCHANGED <<overlap, llm, ctx, agent, blob>>

\* what client.getTools() can answer now: a client the manager has
\* disconnected or dropped may list its tools still, or none
GetToolsNow(c) == IF c \in Range(clients) THEN {GetTools(c)} ELSE {GetTools(c), {}}

\* a getAllTools that updates the cache: it deletes the entry of a tool the
\* client does not list
GetAllToolsStepPruning(t) ==
    /\ t.op = "getAllTools" /\ t.pc = "getTools"
    /\ \E k \in t.todo :
         \/ \E clientTools \in GetToolsNow(t.snap[k]) :
            LET u == [t EXCEPT !.todo = @ \ {k},
                               !.out = IF k \in clientTools
                                       THEN @ \cup {k} ELSE @]
            IN /\ IF u.todo = {}
                  THEN SettleAs(t, u, "ok")
                  ELSE Continue(t, u)
               /\ toolToClientMap' = IF k \in clientTools THEN toolToClientMap
                                     ELSE [toolToClientMap EXCEPT ![k] = NoClient]
         \/ /\ SettleAs(t, [t EXCEPT !.out = {}], "TransportError")
            /\ UNCHANGED toolToClientMap
    /\ UNCHANGED <<clients, connectionErrors, promptToClientMap, resourceToClientMap>>
    /\ UNCHANGED <<overlap, llm, ctx, agent, blob>>

\* client.getTools() of one entry settled: the tool is copied into allTools
\* when the client lists it; a rejection rejects getAllTools
GetAllToolsStep(t) ==
    /\ t.op = "getAllTools" /\ t.pc = "getTools"
    /\ \E k \in t.todo :
         \/ \E clientTools \in GetToolsNow(t.snap[k]) :
            LET u == [t EXCEPT !.todo = @ \ {k},
                               !.out = IF k \in clientTools
                                       THEN @ \cup {k} ELSE @]
            IN IF u.todo = {}
               THEN SettleAs(t, u, "ok")
               ELSE Continue(t, u)
         \/ SettleAs(t, [t EXCEPT !.out = {}], "TransportError")
    /\ UNCHANGED manager
    /\ UNCHANGED <<overlap, llm, ctx, agent, blob>>

\* ------------------------------------------------------------------- reads
\* getClients(), getToolClient(name) for every tool name, listAllPrompts()
\* and listAllResources() called one after the other by a caller that does
\* not await in between: none of them suspends, so they read one state
ReadManager ==
    /\ MayCall
    /\ last' = [NoLast EXCEPT !.op = "read",
                              !.res = "ok",
                              !.seen = [clients |-> clients,
                                        tools |-> [k \in ToolNames |-> GetToolClient(k)],
                                        prompts |-> promptToClientMap,
                                        resources |-> resourceToClientMap]]
    /\ UNCHANGED <<manager, tasks, init>>
    /\ UNCHANGED <<overlap, llm, ctx, agent, blob>>

\* ------------------------------------------------------------ completeTask
\* const MAX_ITERATIONS = 10
MAX_ITERATIONS == 10

\* the tool_use blocks a response of the provider can carry, and the
\* sequences of them: none, one, or two
ToolUses == {[id |-> "toolu_1", name |-> "read_file"],
             [id |-> "toolu_2", name |-> "search"]}
Responses ==
    {<<>>} \cup {<<a>> : a \in ToolUses}
           \cup {<<a, b>> : a, b \in ToolUses}

\* the messages of the log: addUserMessage, addAssistantMessage(text,
\* toolCalls) and addToolResult(toolUseId, toolName, result)
NoMessage == [role |-> "none", calls |-> <<>>, id |-> "none", name |-> "none",
              payload |-> "none"]
UserMessage == [NoMessage EXCEPT !.role = "user"]
\* formattedToolCalls = toolUses.map(...): the ids, in the order of toolUses
AssistantMessage(uses) ==
    [NoMessage EXCEPT !.role = "assistant",
                      !.calls = [j \in 1..Len(uses) |-> uses[j].id]]
ToolResult(use, payload) ==
    [NoMessage EXCEPT !.role = "tool", !.id = use.id, !.name = use.name,
                      !.payload = payload]

\* this.eventEmitter.emit(type, ...): the events of completeTask, with the
\* tool name and the kind of payload of the two tool events
Thinking == [type |-> "llmservice:thinking", tool |-> "none", payload |-> "none"]
ToolCall(use) == [type |-> "llmservice:toolCall", tool |-> use.name, payload |-> "none"]
ToolResultEvent(use, payload) ==
    [type |-> "llmservice:toolResult", tool |-> use.name, payload |-> payload]
Response == [type |-> "llmservice:response", tool |-> "none", payload |-> "none"]
Error == [type |-> "llmservice:error", tool |-> "none", payload |-> "none"]
Emitted(l, event) ==
    [l EXCEPT !.events = Append(@, event),
              !.terminal = IF event \in {Response, Error}
                           THEN Append(@, event.type) ELSE @]

\* completeTask(userInput) up to await this.clientManager.getAllTools()
CompleteTask ==
    /\ llm.pc = "idle"
    /\ llm' = [NoLLM EXCEPT !.pc = "getAllTools", !.appended = <<UserMessage>>]
    /\ UNCHANGED <<manager, tasks, init, last, overlap, ctx, agent, blob>>

\* getAllTools settled: its rejection rejects completeTask; else the loop is
\* entered, up to await this.anthropic.messages.create(...)
ToolsListed ==
    /\ llm.pc = "getAllTools"
    /\ \/ llm' = [llm EXCEPT !.pc = "idle", !.res = "rejected"]
       \/ llm' = [Emitted(llm, Thinking) EXCEPT !.pc = "create", !.iterationCount = 1]
    /\ UNCHANGED <<manager, tasks, init, last, overlap, ctx, agent, blob>>

\* a loop that tests iterationCount <= MAX_ITERATIONS
LoopAgainOneMore(l) ==
    IF l.iterationCount <= MAX_ITERATIONS
    THEN [l EXCEPT !.pc = "create", !.iterationCount = @ + 1]
    ELSE [Emitted(l, Response) EXCEPT !.pc = "idle", !.res = "max iterations"]

\* the end of one pass of the while loop: the next pass up to await
\* messages.create, or the return after MAX_ITERATIONS passes
LoopAgain(l) ==
    IF l.iterationCount < MAX_ITERATIONS
    THEN [l EXCEPT !.pc = "create", !.iterationCount = @ + 1]
    ELSE [Emitted(l, Response) EXCEPT !.pc = "idle", !.res = "max iterations"]

\* messages.create settled: an API error is caught and returned as text; a
\* response without tool_use is appended and returned; a response with
\* tool_use is appended with all its tool calls, and the for loop runs up to
\* await this.clientManager.executeTool of the first one
ProviderResponds ==
    /\ llm.pc = "create"
    /\ \/ llm' = [Emitted(llm, Error) EXCEPT !.pc = "idle", !.res = "error"]
       \/ \E toolUses \in Responses :
            LET arrived == [llm EXCEPT !.toolUses = toolUses, !.failed = {},
                                       !.appended = <<AssistantMessage(toolUses)>>,
                                       !.events = <<>>]
            IN IF Len(toolUses) = 0
               THEN llm' = [Emitted(arrived, Response) EXCEPT
                               !.pc = "idle", !.res = "response"]
               ELSE llm' = [Emitted(arrived, ToolCall(toolUses[1])) EXCEPT
                               !.pc = "executeTool", !.next = 1]
    /\ UNCHANGED <<manager, tasks, init, last, overlap, ctx, agent, blob>>

\* a loop whose catch block logs the failure of executeTool and appends no
\* tool result
ToolSettlesErrorDropped ==
    /\ llm.pc = "executeTool"
    /\ \E payload \in {"result", "error"} :
         LET toolUse == llm.toolUses[llm.next]
             added == [Emitted(llm, ToolResultEvent(toolUse, payload)) EXCEPT
                          !.appended =
                              IF payload = "error" THEN @
                              ELSE Append(@, ToolResult(toolUse, payload)),
                          !.failed = IF payload = "error"
                                     THEN @ \cup {llm.next} ELSE @]
         IN llm' = IF llm.next < Len(llm.toolUses)
                   THEN [Emitted(added, ToolCall(llm.toolUses[llm.next + 1]))
                            EXCEPT !.next = @ + 1]
                   ELSE LoopAgain(Emitted(added, Thinking))
    /\ UNCHANGED <<manager, tasks, init, last, overlap, ctx, agent, blob>>

\* a loop without the inner try/catch: the failure of executeTool reaches
\* the catch block of completeTask, which returns the error text
ToolSettlesErrorPropagates ==
    /\ llm.pc = "executeTool"
    /\ \E payload \in {"result", "error"} :
         LET toolUse == llm.toolUses[llm.next]
             added == [Emitted(llm, ToolResultEvent(toolUse, payload)) EXCEPT
                          !.appended = Append(@, ToolResult(toolUse, payload))]
         IN llm' = IF payload = "error"
                   THEN [Emitted(llm, Error) EXCEPT !.pc = "idle", !.res = "error",
                                                    !.failed = @ \cup {llm.next}]
                   ELSE IF llm.next < Len(llm.toolUses)
                   THEN [Emitted(added, ToolCall(llm.toolUses[llm.next + 1]))
                            EXCEPT !.next = @ + 1]
                   ELSE LoopAgain(Emitted(added, Thinking))
    /\ UNCHANGED <<manager, tasks, init, last, overlap, ctx, agent, blob>>

\* a loop whose catch block appends the error as the tool result and emits
\* no 'llmservice:toolResult'
ToolSettlesErrorSilent ==
    /\ llm.pc = "executeTool"
    /\ \E payload \in {"result", "error"} :
         LET toolUse == llm.toolUses[llm.next]
             added == [(IF payload = "error" THEN llm
                       ELSE Emitted(llm, ToolResultEvent(toolUse, payload))) EXCEPT
                          !.appended = Append(@, ToolResult(toolUse, payload)),
                          !.failed = IF payload = "error"
                                     THEN @ \cup {llm.next} ELSE @]
         IN llm' = IF llm.next < Len(llm.toolUses)
                   THEN [Emitted(added, ToolCall(llm.toolUses[llm.next + 1]))
                            EXCEPT !.next = @ + 1]
                   ELSE LoopAgain(Emitted(added, Thinking))
    /\ UNCHANGED <<manager, tasks, init, last, overlap, ctx, agent, blob>>

\* executeTool settled: its result, or the message of its error, is appended
\* as the tool result and emitted as 'llmservice:toolResult'; then the for
\* loop goes on to the toolCall event and executeTool of the next tool use,
\* or 'llmservice:thinking' is emitted and the while loop goes on
ToolSettles ==
    /\ llm.pc = "executeTool"
    /\ \E payload \in {"result", "error"} :
         LET toolUse == llm.toolUses[llm.next]
             added == [Emitted(llm, ToolResultEvent(toolUse, payload)) EXCEPT
                          !.appended = Append(@, ToolResult(toolUse, payload)),
                          !.failed = IF payload = "error"
                                     THEN @ \cup {llm.next} ELSE @]
         IN llm' = IF llm.next < Len(llm.toolUses)
                   THEN [Emitted(added, ToolCall(llm.toolUses[llm.next + 1]))
                            EXCEPT !.next = @ + 1]
                   ELSE LoopAgain(Emitted(added, Thinking))
    /\ UNCHANGED <<manager, tasks, init, last, overlap, ctx, agent, blob>>

\* ------------------------------------------------- OpenAIMessageFormatter
\* the InternalMessages of the model: a system message, user messages of
\* two sizes, assistant messages with no, one and two tool calls, and the
\* tool results of the two tool uses
ReadFile == [id |-> "toolu_1", name |-> "read_file"]
Search == [id |-> "toolu_2", name |-> "search"]
SystemMessage == [NoMessage EXCEPT !.role = "system", !.payload = "note"]
UserText(content) == [NoMessage EXCEPT !.role = "user", !.payload = content]
LogMessages ==
    {UserText(c) : c \in {"short", "long"}}
        \cup {AssistantMessage(uses) : uses \in {<<>>, <<ReadFile>>, <<ReadFile, Search>>}}
        \cup {ToolResult(use, "result") : use \in {ReadFile, Search}}
InternalMessages == LogMessages \cup {SystemMessage}
SeqsOf(S) == UNION {[1..n -> S] : n \in 0..MaxHistory}

\* systemPrompt: string | null
SystemPrompts == {Null, "", "You are Saiki"}
\* if (systemPrompt)
Truthy(s) == s \notin {Null, ""}

\* one message of the OpenAI chat API; a field the formatter does not set
\* is Null, or the empty list for tool_calls
NoWire == [role |-> Null, content |-> Null, tool_calls |-> <<>>,
           tool_call_id |-> Null, name |-> Null]

\* a formatter that copies role and content only, and the call id of a tool
\* message
FormatMessagePlain(msg) ==
    CASE msg.role = "system" ->
           <<[NoWire EXCEPT !.role = "system", !.content = msg.payload]>>
      [] msg.role = "user" ->
           <<[NoWire EXCEPT !.role = "user", !.content = msg.payload]>>
      [] msg.role = "assistant" ->
           <<[NoWire EXCEPT !.role = "assistant", !.content = msg.payload]>>
      [] msg.role = "tool" ->
           <<[NoWire EXCEPT !.role = "tool", !.content = msg.payload,
                            !.tool_call_id = msg.id]>>
      [] OTHER -> <<>>

\* the body of the for loop of format: what the switch on msg.role pushes
\* for one message (it has no default case)
FormatMessage(msg) ==
    CASE msg.role = "system" ->
           <<[NoWire EXCEPT !.role = "system", !.content = msg.payload]>>
      [] msg.role = "user" ->
           <<[NoWire EXCEPT !.role = "user", !.content = msg.payload]>>
      [] msg.role = "assistant" ->
           IF Len(msg.calls) > 0
           THEN <<[NoWire EXCEPT !.role = "assistant", !.content = msg.payload,
                                 !.tool_calls = msg.calls]>>
           ELSE <<[NoWire EXCEPT !.role = "assistant", !.content = msg.payload]>>
      [] msg.role = "tool" ->
           <<[NoWire EXCEPT !.role = "tool", !.content = msg.payload,
                            !.tool_call_id = msg.id, !.name = msg.name]>>
      [] OTHER -> <<>>

RECURSIVE FormatAll(_)
FormatAll(history) ==
    IF history = <<>> THEN <<>>
    ELSE FormatMessage(Head(history)) \o FormatAll(Tail(history))

\* format(history, systemPrompt)
format(history, systemPrompt) ==
    (IF Truthy(systemPrompt)
     THEN <<[NoWire EXCEPT !.role = "system", !.content = systemPrompt]>>
     ELSE <<>>) \o FormatAll(history)

\* getSystemPrompt(): null
getSystemPrompt == Null

\* a caller formats the history it holds with the system prompt it holds
FormatHistory ==
    /\ ctx.op = "none"
    /\ ctx' = [ctx EXCEPT !.op = "format",
                          !.formatted = format(ctx.input, ctx.prompt)]
    /\ UNCHANGED <<manager, tasks, init, last, overlap, llm, agent, blob>>

\* a caller asks the formatter for the system prompt
GetSystemPrompt ==
    /\ ctx.op = "none"
    /\ ctx' = [ctx EXCEPT !.op = "getSystemPrompt", !.value = getSystemPrompt]
    /\ UNCHANGED <<manager, tasks, init, last, overlap, llm, agent, blob>>

\* the i-th message of a history is a tool message whose call id is the id
\* of no tool call of an assistant message before it; the same of the
\* i-th message on the wire
HistoryOrphan(h, i) ==
    /\ h[i].role = "tool"
    /\ ~\E j \in 1..(i - 1) :
          /\ h[j].role = "assistant"
          /\ \E k \in DOMAIN h[j].calls : h[j].calls[k] = h[i].id
WireOrphan(w, i) ==
    /\ w[i].role = "tool"
    /\ ~\E j \in 1..(i - 1) :
          /\ w[j].role = "assistant"
          /\ \E k \in DOMAIN w[j].tool_calls : w[j].tool_calls[k] = w[i].tool_call_id

\* --------------------------------------------------------- context manager
\* the maximum token counts of the models of the registry, scaled down to
\* the sizes of the messages of the model
ModelMaxTokens == {5, 10}

\* Math.floor(rawMaxTokens * 0.9); the product of an integer below 2^53 / 10
\* and the double 0.9 is never below the exact value by as much as 1/10
WithMargin(rawMaxTokens) == (rawMaxTokens * 9) \div 10

\* getEffectiveMaxInputTokens(config) for a configuration that sets no
\* maxInputTokens of its own: the maximum of the model
getEffectiveMaxInputTokens(registryMaxTokens) == registryMaxTokens

\* the third argument of new MessageManager(...) and the fourth of new
\* ContextManager(...) in the three places that create a manager
CreationPaths == {"AnthropicService", "createMessageManager", "VercelLLMService"}
MaxTokensOf(path, registryMaxTokens) ==
    CASE path = "AnthropicService" -> WithMargin(registryMaxTokens)
      [] path = "createMessageManager" -> WithMargin(registryMaxTokens)
      [] path = "VercelLLMService" -> getEffectiveMaxInputTokens(registryMaxTokens)

\* a service, or the factory, creates the manager of a conversation
CreateManager(path, registryMaxTokens) ==
    /\ ctx.path = "none"
    /\ ctx' = [NoCtx EXCEPT !.path = path, !.modelMax = registryMaxTokens,
                            !.maxTokens = MaxTokensOf(path, registryMaxTokens),
                            !.systemPrompt = "You are Saiki",
                            !.op = "create"]
    /\ UNCHANGED <<manager, tasks, init, last, overlap, llm, agent, blob>>

\* what a call on the manager leaves of the previous call: the manager
Kept(c) ==
    [NoCtx EXCEPT !.path = c.path, !.modelMax = c.modelMax,
                  !.maxTokens = c.maxTokens, !.systemPrompt = c.systemPrompt,
                  !.history = c.history]

\* addUserMessage, addAssistantMessage, addToolResult: pure appends
Appended(c, msg) == [Kept(c) EXCEPT !.op = "append", !.history = Append(@, msg)]
AddUserMessage(content) ==
    /\ ctx.path # "none"
    /\ Len(ctx.history) < MaxHistory
    /\ ctx' = Appended(ctx, UserText(content))
    /\ UNCHANGED <<manager, tasks, init, last, overlap, llm, agent, blob>>
AddAssistantMessage(uses) ==
    /\ ctx.path # "none"
    /\ Len(ctx.history) < MaxHistory
    /\ ctx' = Appended(ctx, AssistantMessage(uses))
    /\ UNCHANGED <<manager, tasks, init, last, overlap, llm, agent, blob>>
AddToolResult(use) ==
    /\ ctx.path # "none"
    /\ Len(ctx.history) < MaxHistory
    /\ ctx' = Appended(ctx, ToolResult(use, "result"))
    /\ UNCHANGED <<manager, tasks, init, last, overlap, llm, agent, blob>>

\* the estimate of the tokenizer: of a message, of the system prompt, of
\* the system prompt with a history
Tokens(msg) ==
    CASE msg.role = "assistant" -> 1 + Len(msg.calls)
      [] msg.role = "tool" -> 2
      [] msg.payload = "long" -> 3
      [] OTHER -> 1
RECURSIVE SumTokens(_)
SumTokens(h) == IF h = <<>> THEN 0 ELSE Tokens(Head(h)) + SumTokens(Tail(h))
Estimate(systemPrompt, h) ==
    (IF Truthy(systemPrompt) THEN 1 ELSE 0) + SumTokens(h)

\* the number of most recent messages a compression pass preserves: the
\* floor under which it does not cut
PreserveRecent == 2

\* the history without its k oldest messages
Drop(h, k) == SubSeq(h, k + 1, Len(h))

\* a strategy that removes the oldest message whatever it is
EligibleAnyMessage(h, k) == k \in 1..(Len(h) - PreserveRecent)

\* whether the history can be cut after its k-th message: the most recent
\* messages are preserved and no retained tool result loses the assistant
\* message of its tool call
Eligible(h, k) ==
    /\ k \in 1..(Len(h) - PreserveRecent)
    /\ \A i \in (k + 1)..Len(h) :
          HistoryOrphan(Drop(h, k), i - k) => HistoryOrphan(h, i)

\* a strategy that stops after its first cut
RECURSIVE CompressOnce(_, _, _, _)
CompressOnce(systemPrompt, maxTokens, h, rounds) ==
    IF Estimate(systemPrompt, h) <= maxTokens \/ rounds > 0
    THEN [history |-> h, rounds |-> rounds]
    ELSE IF \E k \in 1..Len(h) : Eligible(h, k)
    THEN LET k == CHOOSE k \in 1..Len(h) :
                    /\ Eligible(h, k)
                    /\ \A j \in 1..(k - 1) : ~Eligible(h, j)
         IN CompressOnce(systemPrompt, maxTokens, Drop(h, k), rounds + 1)
    ELSE [history |-> h, rounds |-> rounds]

\* a strategy that goes on cutting after the estimate fits
RECURSIVE CompressToFloor(_, _, _, _)
CompressToFloor(systemPrompt, maxTokens, h, rounds) ==
    IF Estimate(systemPrompt, h) <= maxTokens /\ rounds = 0
    THEN [history |-> h, rounds |-> rounds]
    ELSE IF \E k \in 1..Len(h) : Eligible(h, k)
    THEN LET k == CHOOSE k \in 1..Len(h) :
                    /\ Eligible(h, k)
                    /\ \A j \in 1..(k - 1) : ~Eligible(h, j)
         IN CompressToFloor(systemPrompt, maxTokens, Drop(h, k), rounds + 1)
    ELSE [history |-> h, rounds |-> rounds]

\* the compression strategy, on a working copy: while the estimate exceeds
\* the budget, remove the oldest eligible messages; [history, rounds]
RECURSIVE Compress(_, _, _, _)
Compress(systemPrompt, maxTokens, h, rounds) ==
    IF Estimate(systemPrompt, h) <= maxTokens
    THEN [history |-> h, rounds |-> rounds]
    ELSE IF \E k \in 1..Len(h) : Eligible(h, k)
    THEN LET k == CHOOSE k \in 1..Len(h) :
                    /\ Eligible(h, k)
                    /\ \A j \in 1..(k - 1) : ~Eligible(h, j)
         IN Compress(systemPrompt, maxTokens, Drop(h, k), rounds + 1)
    ELSE [history |-> h, rounds |-> rounds]

\* getFormattedMessagesWithCompression: {formattedMessages, systemPrompt,
\* tokensUsed}
GetFormattedMessagesWithCompression ==
    /\ ctx.path # "none"
    /\ LET pass == Compress(ctx.systemPrompt, ctx.maxTokens, ctx.history, 0)
       IN ctx' = [Kept(ctx) EXCEPT
                     !.op = "getFormattedMessagesWithCompression",
                     !.input = pass.history,
                     !.prompt = ctx.systemPrompt,
                     !.rounds = pass.rounds,
                     !.formatted = format(pass.history, ctx.systemPrompt),
                     !.tokensUsed = Estimate(ctx.systemPrompt, pass.history)]
    /\ UNCHANGED <<manager, tasks, init, last, overlap, llm, agent, blob>>

\* eventEmitter.emit(event), seen by a listener that looks at the log
Emit(c, event) ==
    [c EXCEPT !.emitted = Append(@, [event |-> event, logLen |-> Len(c.history)])]

\* MessageManager.reset(): the log is cleared; the system prompt and the
\* budget stay
Reset(c) ==
    [c EXCEPT !.op = "reset", !.history = <<>>, !.cleared = Len(c.history)]

\* a service that emits its notification before it resets the manager
ResetConversationEmitsFirst ==
    /\ ctx.path # "none"
    /\ ctx' = Emit(Reset(Emit(Kept(ctx), "llmservice:conversationReset")),
                   "saiki:conversationReset")
    /\ UNCHANGED <<manager, tasks, init, last, overlap, llm, agent, blob>>

\* SaikiAgent.resetConversation(): the service resets its manager and emits
\* llmservice:conversationReset, then the agent emits saiki:conversationReset
ResetConversation ==
    /\ ctx.path # "none"
    /\ ctx' = Emit(Emit(Reset(Kept(ctx)), "llmservice:conversationReset"),
                   "saiki:conversationReset")
    /\ UNCHANGED <<manager, tasks, init, last, overlap, llm, agent, blob>>

\* ------------------------------------------------------------- SaikiAgent
\* createLLMService(config, router, ...) returns: the in-built services need
\* an API key and know openai and anthropic, the vercel service knows
\* openai, anthropic and google; else it throws
Creatable(config, router) ==
    IF router = "vercel"
    THEN config.provider \in {"openai", "anthropic", "google"}
    ELSE /\ config.apiKey # ""
         /\ config.provider \in {"openai", "anthropic"}

\* this.configManager.updateLLMConfig(newLLMConfig) returns or throws
UpdateOutcomes == {"ok", "threw"}
\* the llm config the config manager holds after updateLLMConfig
updateLLMConfig(llmConfig, newLLMConfig, outcome) ==
    IF outcome = "ok" THEN newLLMConfig ELSE llmConfig

\* switchLLM(newLLMConfig, router): createLLMService, _setLLMService,
\* updateLLMConfig, emit 'saiki:llmSwitched'; the catch block logs and
\* rethrows
SwitchLLM(newLLMConfig, router) ==
    /\ IF ~Creatable(newLLMConfig, router)
       THEN agent' = [agent EXCEPT !.op = "switchLLM", !.res = "threw",
                                   !.emitted = <<>>]
       ELSE \E outcome \in UpdateOutcomes :
              LET newLLMService == Service(newLLMConfig, router, agent.messageManager)
                  set == [agent EXCEPT !.op = "switchLLM",
                                       !.llmService = newLLMService,
                                       !.emitted = <<>>]
                  updated == [set EXCEPT !.llmConfig =
                                 updateLLMConfig(@, newLLMConfig, outcome)]
              IN agent' = IF outcome = "threw"
                          THEN [updated EXCEPT !.res = "threw"]
                          ELSE [updated EXCEPT !.res = "ok",
                                               !.emitted = <<"saiki:llmSwitched">>]
    /\ UNCHANGED <<manager, tasks, init, last, overlap, llm, ctx, blob>>

\* -------------------------------------------------------- LocalBlobBackend
\* the BlobMetadata callers pass to store
Metadatas == {[originalName |-> "a.txt"], [originalName |-> "b.txt"]}

\* storedMetadata: id, originalName, size: buffer.length, hash
StoredMetadata(id, buffer, metadata) ==
    [id |-> id, originalName |-> metadata.originalName, size |-> Len(buffer),
     hash |-> id]

RECURSIVE TotalSize(_, _)
\* the loop of getStats: totalSize += stat.size for every .dat file
TotalSize(dat, ids) ==
    IF ids = {} THEN 0
    ELSE LET id == CHOOSE i \in ids : TRUE
         IN Len(dat[id][1]) + TotalSize(dat, ids \ {id})

\* getStats(): count: datFiles.length, totalSize
GetStats(b) ==
    LET datFiles == {id \in BlobIds : b.dat[id] # NoFile}
    IN [count |-> Cardinality(datFiles), totalSize |-> TotalSize(b.dat, datFiles)]

\* connect(): fs.mkdir creates the store directory, or fails
BlobConnect ==
    /\ \/ blob' = [blob EXCEPT !.connected = TRUE,
                               !.last = [NoBlobResult EXCEPT !.op = "connect",
                                                             !.res = "ok"]]
       \/ /\ ~blob.connected
          /\ blob' = [blob EXCEPT !.last = [NoBlobResult EXCEPT
                                               !.op = "connect",
                                               !.res = "operationFailed"]]
    /\ UNCHANGED <<manager, tasks, init, last, overlap, llm, ctx, agent>>

\* disconnect()
BlobDisconnect ==
    /\ blob' = [blob EXCEPT !.connected = FALSE,
                            !.last = [NoBlobResult EXCEPT !.op = "disconnect",
                                                          !.res = "ok"]]
    /\ UNCHANGED <<manager, tasks, init, last, overlap, llm, ctx, agent>>

\* store(input, metadata) awaited by its caller: the connected check, the
\* two size checks, the hash, the look for <id>.meta.json, and the write of
\* the two files, which succeeds or fails and is cleaned up
Store(input, metadata) ==
    LET buffer == input
        maxTotalSize == blob.config.maxTotalSize
        stats == GetStats(blob)
        id == Hash(buffer)
        threw(error) == [blob EXCEPT !.last =
                            [NoBlobResult EXCEPT !.op = "store", !.res = error,
                                                 !.input = input]]
        returned(b, storedMetadata) ==
            [b EXCEPT !.last = [op |-> "store", res |-> "ok", input |-> input,
                                id |-> id, metadata |-> storedMetadata]]
    IN /\ IF ~blob.connected
          THEN blob' = threw("backendNotConnected")
          ELSE IF Len(buffer) > blob.config.maxBlobSize
          THEN blob' = threw("sizeExceeded")
          ELSE IF maxTotalSize # 0 /\ stats.totalSize + Len(buffer) > maxTotalSize
          THEN blob' = threw("totalSizeExceeded")
          ELSE IF blob.meta[id] # NoFile
          THEN blob' = returned(blob, blob.meta[id][1])
          ELSE LET storedMetadata == StoredMetadata(id, buffer, metadata)
               IN \/ blob' = returned([blob EXCEPT !.dat[id] = <<buffer>>,
                                                    !.meta[id] = <<storedMetadata>>],
                                       storedMetadata)
                  \/ blob' = [threw("operationFailed") EXCEPT
                                  !.dat[id] = NoFile, !.meta[id] = NoFile]
       /\ UNCHANGED <<manager, tasks, init, last, overlap, llm, ctx, agent>>

\* delete(reference): both files are unlinked; a missing one is notFound
Delete(id) ==
    /\ blob' =
          IF ~blob.connected
          THEN [blob EXCEPT !.last = [NoBlobResult EXCEPT
                                         !.op = "delete",
                                         !.res = "backendNotConnected"]]
          ELSE [blob EXCEPT
                   !.dat[id] = NoFile, !.meta[id] = NoFile,
                   !.last = [NoBlobResult EXCEPT
                                !.op = "delete", !.id = id,
                                !.res = IF blob.dat[id] = NoFile
                                           \/ blob.meta[id] = NoFile
                                        THEN "notFound" ELSE "ok"]]
    /\ UNCHANGED <<manager, tasks, init, last, overlap, llm, ctx, agent>>

\* ------------------------------------------------------------ specification
Next ==
    \/ \E n \in Servers : ConnectServer(n)
    \/ \E n \in Servers : RegisterClient(n)
    \/ \E mode \in Configs : InitializeFromConfig(mode)
    \/ \E n \in Servers : RemoveClient(n)
    \/ DisconnectAll
    \/ \E toolName \in ToolNames : ExecuteTool(toolName)
    \/ GetAllTools
    \/ \E t \in InFlight : ConnectSettle(t)
    \/ \E t \in InFlight : DiscoverTools(t)
    \/ \E t \in InFlight : DiscoverPrompts(t)
    \/ \E t \in InFlight : DiscoverResources(t)
    \/ InitJoin
    \/ \E t \in InFlight : RemoveClientFinish(t)
    \/ \E t \in InFlight : DisconnectAllFinish(t)
    \/ \E t \in InFlight : ExecuteToolConfirm(t)
    \/ \E t \in InFlight : ExecuteToolReturn(t)
    \/ \E t \in InFlight : GetAllToolsStep(t)

\* the manager driven by one loop that awaits each call
Spec == Init /\ [][Next]_vars

\* the manager shared by callers whose calls overlap
InitOverlap ==
    /\ clients = [n \in Servers |-> NoClient]
    /\ connectionErrors = [n \in Servers |-> NoError]
    /\ toolToClientMap = EmptyToolMap
    /\ promptToClientMap = [p \in PromptNames |-> NoClient]
    /\ resourceToClientMap = [r \in ResourceUris |-> NoClient]
    /\ tasks = EmptyBag
    /\ init = NoInit
    /\ last = NoLast
    /\ overlap = TRUE
    /\ llm = NoLLM
    /\ agent = NoAgent
    /\ blob = NoBlob
    /\ ctx = NoCtx
SpecOverlap == InitOverlap /\ [][Next]_vars

\* callers that connect servers and callers that read the manager while
\* connectServer calls are in flight
NextReaders ==
    \/ \E n \in Servers : ConnectServer(n)
    \/ ReadManager
    \/ \E t \in InFlight : ConnectSettle(t)
    \/ \E t \in InFlight : DiscoverTools(t)
    \/ \E t \in InFlight : DiscoverPrompts(t)
    \/ \E t \in InFlight : DiscoverResources(t)
SpecReaders == InitOverlap /\ [][NextReaders]_vars

\* callers that initialize the manager and callers that execute tools while
\* other calls are in flight
NextSessions ==
    \/ \E mode \in Configs : InitializeFromConfig(mode)
    \/ \E toolName \in ToolNames : ExecuteTool(toolName)
    \/ \E t \in InFlight : ConnectSettle(t)
    \/ \E t \in InFlight : DiscoverTools(t)
    \/ \E t \in InFlight : DiscoverPrompts(t)
    \/ \E t \in InFlight : DiscoverResources(t)
    \/ InitJoin
    \/ \E t \in InFlight : ExecuteToolConfirm(t)
    \/ \E t \in InFlight : ExecuteToolReturn(t)
SpecSessions == InitOverlap /\ [][NextSessions]_vars

\* the server whose client.connect may stay pending for ever
Hanging == "docs"

\* initializeFromConfig called by a loop that awaits it.  The event loop
\* runs the continuation of every promise that has settled, and every
\* client call settles sooner or later, except client.connect of the
\* server Hanging, which may or may not settle
NextInit ==
    \/ \E mode \in Configs : InitializeFromConfig(mode)
    \/ \E t \in InFlight : ConnectSettle(t)
    \/ \E t \in InFlight : DiscoverTools(t)
    \/ \E t \in InFlight : DiscoverPrompts(t)
    \/ \E t \in InFlight : DiscoverResources(t)
    \/ InitJoin
FairInit ==
    /\ WF_vars(\E t \in InFlight : t.name # Hanging /\ ConnectSettle(t))
    /\ WF_vars(\E t \in InFlight : DiscoverTools(t))
    /\ WF_vars(\E t \in InFlight : DiscoverPrompts(t))
    /\ WF_vars(\E t \in InFlight : DiscoverResources(t))
    /\ WF_vars(InitJoin)
SpecInit == Init /\ [][NextInit]_vars /\ FairInit

\* the AnthropicService driven by a loop that awaits each completeTask
NextTask ==
    \/ CompleteTask
    \/ ToolsListed
    \/ ProviderResponds
    \/ ToolSettles
SpecTask == Init /\ [][NextTask]_vars

\* the OpenAIMessageFormatter called by a caller that holds any history of
\* at most MaxHistory messages and any system prompt
InitFormatter ==
    /\ clients = [n \in Servers |-> NoClient]
    /\ connectionErrors = [n \in Servers |-> NoError]
    /\ toolToClientMap = EmptyToolMap
    /\ promptToClientMap = [p \in PromptNames |-> NoClient]
    /\ resourceToClientMap = [r \in ResourceUris |-> NoClient]
    /\ tasks = EmptyBag
    /\ init = NoInit
    /\ last = NoLast
    /\ overlap = FALSE
    /\ llm = NoLLM
    /\ agent = NoAgent
    /\ blob = NoBlob
    /\ \E history \in SeqsOf(InternalMessages), systemPrompt \in SystemPrompts :
          ctx = [NoCtx EXCEPT !.input = history, !.prompt = systemPrompt]
NextFormatter ==
    \/ FormatHistory
    \/ GetSystemPrompt
SpecFormatter == InitFormatter /\ [][NextFormatter]_vars

\* one conversation: its manager is created, messages are appended and the
\* formatted messages are asked for, the conversation is reset
NextContext ==
    \/ \E path \in CreationPaths, registryMaxTokens \in ModelMaxTokens :
          CreateManager(path, registryMaxTokens)
    \/ \E content \in {"short", "long"} : AddUserMessage(content)
    \/ \E uses \in {<<>>, <<ReadFile>>, <<ReadFile, Search>>} :
          AddAssistantMessage(uses)
    \/ \E use \in {ReadFile, Search} : AddToolResult(use)
    \/ GetFormattedMessagesWithCompression
    \/ ResetConversation
SpecContext == Init /\ [][NextContext]_vars

\* callers that connect, remove and disconnect servers and callers that
\* execute tools while those calls are in flight
NextGate ==
    \/ \E n \in Servers : ConnectServer(n)
    \/ \E n \in Servers : RemoveClient(n)
    \/ DisconnectAll
    \/ \E toolName \in ToolNames : ExecuteTool(toolName)
    \/ \E t \in InFlight : ConnectSettle(t)
    \/ \E t \in InFlight : DiscoverTools(t)
    \/ \E t \in InFlight : DiscoverPrompts(t)
    \/ \E t \in InFlight : DiscoverResources(t)
    \/ \E t \in InFlight : RemoveClientFinish(t)
    \/ \E t \in InFlight : DisconnectAllFinish(t)
    \/ \E t \in InFlight : ExecuteToolConfirm(t)
    \/ \E t \in InFlight : ExecuteToolReturn(t)
SpecGate == InitOverlap /\ [][NextGate]_vars

\* initializeFromConfig on a manager whose servers come and go between the
\* calls, with configurations in which a server may lack a connection mode
NextConfig ==
    \/ \E mode \in ConfigsWithUnset : InitializeFromConfig(mode)
    \/ \E n \in Servers : RemoveClient(n)
    \/ \E t \in InFlight : ConnectSettle(t)
    \/ \E t \in InFlight : DiscoverTools(t)
    \/ \E t \in InFlight : DiscoverPrompts(t)
    \/ \E t \in InFlight : DiscoverResources(t)
    \/ InitJoin
    \/ \E t \in InFlight : RemoveClientFinish(t)
SpecConfig == Init /\ [][NextConfig]_vars

\* the SaikiAgent whose LLM is switched again and again
NextAgent ==
    \E newLLMConfig \in LLMConfigs, router \in Routers :
        SwitchLLM(newLLMConfig, router)
SpecAgent == Init /\ [][NextAgent]_vars

\* a LocalBlobBackend with any of the configurations, used by one caller
\* that awaits each call
InitBlob ==
    /\ clients = [n \in Servers |-> NoClient]
    /\ connectionErrors = [n \in Servers |-> NoError]
    /\ toolToClientMap = EmptyToolMap
    /\ promptToClientMap = [p \in PromptNames |-> NoClient]
    /\ resourceToClientMap = [r \in ResourceUris |-> NoClient]
    /\ tasks = EmptyBag
    /\ init = NoInit
    /\ last = NoLast
    /\ overlap = FALSE
    /\ llm = NoLLM
    /\ ctx = NoCtx
    /\ agent = NoAgent
    /\ \E config \in BlobConfigs : blob = [NoBlob EXCEPT !.config = config]
NextBlob ==
    \/ BlobConnect
    \/ BlobDisconnect
    \/ \E input \in Buffers, metadata \in Metadatas : Store(input, metadata)
    \/ \E id \in BlobIds : Delete(id)
SpecBlob == InitBlob /\ [][NextBlob]_vars

\* ------------------------------------------------------------- properties
\* the clients the caches refer to, and the clients that are registered
CacheEntries ==
    (Range(toolToClientMap) \cup Range(promptToClientMap)
        \cup Range(resourceToClientMap)) \ {NoClient}
RegisteredClients == Range(clients) \ {NoClient}
\* the servers a map from names to messages names
Named(errs) == {n \in Servers : errs[n] # NoError}
\* the strict / lenient servers whose client.connect failed in the call r
StrictFailed(r) == {n \in Servers : r.mode[n] = "strict" /\ r.connFailed[n] # NoError}
LenientFailed(r) == {n \in Servers : r.mode[n] = "lenient" /\ r.connFailed[n] # NoError}
\* the connectServer calls of initializeFromConfig in flight
Attempts == {t \in InFlight : t.parent}

\* C1: when at least one strict server failed to connect,
\* initializeFromConfig fails with the aggregate error, and the servers the
\* error names are exactly the strict servers that failed: no lenient
\* server and no strict server that connected, whatever the lenient
\* servers did.
C1_AggregateErrorNamesFailedStrict ==
    (last.op = "initializeFromConfig" /\ StrictFailed(last) # {})
        => /\ last.res = "AggregateConnectError"
           /\ Named(last.err) = StrictFailed(last)

\* a strict and a lenient server both failed, and the call has thrown
C1_Witness ==
    /\ last.op = "initializeFromConfig"
    /\ last.res = "AggregateConnectError"
    /\ StrictFailed(last) # {}
    /\ LenientFailed(last) # {}

\* C2: every entry of the tool, prompt and resource caches maps to a client
\* that is registered in the client set (the statement of the claim; the
\* code does not keep it).
C2_CachesReferenceRegisteredClients == CacheEntries \subseteq RegisteredClients

\* C3: when removeClient(name) has completed for a registered server, the
\* name is not registered and no cache entry maps to the removed client
\* (the statement of the claim; the code does not keep it).
C3_RemoveClientPurgesCaches ==
    (last.op = "removeClient" /\ last.client # NoClient)
        => /\ clients[last.name] = NoClient
           /\ last.client \notin CacheEntries

\* C4: when the confirmation provider answers false, executeTool fails with
\* the denial error at once and has called callTool on no client.
C4_DeniedMeansNoToolCall ==
    /\ \A t \in InFlight : t.gate # "denied"
    /\ last.gate = "denied"
        => /\ last.op = "executeTool"
           /\ last.res = "ExecutionDenied"
           /\ last.calls = 0

\* an executeTool call was denied
C4_Witness ==
    /\ last.op = "executeTool"
    /\ last.gate = "denied"
    /\ last.asks = 1

\* C5: an executeTool call that found a client for the tool calls
\* requestConfirmation exactly once, and calls callTool (at most once) only
\* after requestConfirmation has returned, approving.
C5_ConfirmationOnceBeforeToolCall ==
    /\ \A t \in InFlight : t.op = "executeTool"
        => /\ t.asks = 1
           /\ t.calls = IF t.pc = "calling" THEN 1 ELSE 0
           /\ t.calls > 0 => t.gate = "approved"
    /\ (last.op = "executeTool" /\ last.res # "ToolNotFound")
        => /\ last.asks = 1
           /\ last.calls <= 1
           /\ last.calls > 0 => last.gate = "approved"

\* an approved executeTool call has returned the result of callTool
C5_Witness ==
    /\ last.op = "executeTool"
    /\ last.res = "result"
    /\ last.asks = 1
    /\ last.calls = 1

\* C6: executeTool for a tool name without an entry in the tool cache
\* starts no call that goes on to the confirmation or the tool, fails with
\* the not-found error, has called callTool on no client, and leaves the
\* client set, the failed connections and the caches as they were.
C6_UnknownToolFailsWithoutEffect ==
    [][\A k \in ToolNames : toolToClientMap[k] = NoClient
          => /\ \A t \in BagToSet(tasks') :
                   (t.op = "executeTool" /\ t.tool = k)
                       => CopiesIn(t, tasks') <= CopiesIn(t, tasks)
             /\ (last'.op = "executeTool" /\ last'.tool = k)
                   => /\ last'.res = "ToolNotFound"
                      /\ last'.asks = 0
                      /\ last'.calls = 0
                      /\ manager' = manager]_vars

\* executeTool was called for a tool that no registered server provides
C6_Witness ==
    /\ last.op = "executeTool"
    /\ last.res = "ToolNotFound"
    /\ toolToClientMap[last.tool] = NoClient

\* C7: when no strict server failed, initializeFromConfig returns normally
\* whatever the lenient servers did; and when it settles, every lenient
\* server that failed has its error message in connectionErrors and is not
\* registered as a client.
C7_LenientFailuresRecordedNotThrown ==
    last.op = "initializeFromConfig"
        => /\ StrictFailed(last) = {} => last.res = "ok"
           /\ \A n \in LenientFailed(last) :
                 /\ connectionErrors[n] = last.connFailed[n]
                 /\ clients[n] = NoClient

\* initializeFromConfig returned normally although a lenient server failed
C7_Witness ==
    /\ last.op = "initializeFromConfig"
    /\ last.res = "ok"
    /\ LenientFailed(last) # {}

\* C8: when initializeFromConfig has failed because of a strict server, the
\* caches hold no tool, prompt or resource of a server that connected
\* during that call (the statement of the claim; the code does not keep it).
C8_StrictFailureDiscardsConnected ==
    (last.op = "initializeFromConfig" /\ last.res = "AggregateConnectError")
        => \A c \in CacheEntries : c[1] \notin last.connected

\* C9: while initializeFromConfig waits, every configured server has had its
\* connect attempt started, and every attempt that has not settled is still
\* in flight, whatever the other attempts did; when initializeFromConfig
\* decides, no attempt is in flight and every configured server has either
\* connected or failed.
C9_AllAttemptsStartedAndJoined ==
    /\ init.st = "running"
        => /\ Configured(init.mode) =
                 init.pending \cup init.succ \cup Named(init.connFailed)
           /\ {t.name : t \in Attempts} = init.pending
    /\ last.op = "initializeFromConfig"
        => /\ Attempts = {}
           /\ Configured(last.mode) = last.succ \cup Named(last.connFailed)

\* one server's attempt has failed and the attempt of the other one goes on
C9_Witness ==
    /\ init.st = "running"
    /\ init.connFailed["fs"] # NoError
    /\ "docs" \in init.pending
    /\ \E t \in Attempts : t.name = "docs" /\ t.pc = "getTools"

\* C10: a tool name is in the result of getAllTools only if a server that
\* is registered advertises it (the 'only if' half of the claim; the code
\* does not keep it).
C10_ToolsOnlyOfRegisteredServers ==
    (last.op = "getAllTools" /\ last.res = "ok")
        => last.out \subseteq UNION {ToolsOf(n) : n \in Registered}

\* C11: when connectServer(name) has failed, the error message is recorded
\* in connectionErrors under that name, the name has no client in the
\* client set, and no tool, prompt or resource cache entry maps to the
\* client the failed attempt created.
C11_FailedConnectRecordedNotRegistered ==
    (last.op = "connectServer" /\ last.res = "ConnectError")
        => /\ connectionErrors[last.name] = ConnectErrorOf(last.name)
           /\ clients[last.name] = NoClient
           /\ last.client # NoClient
           /\ last.client \notin CacheEntries

\* connectServer has failed while another server is registered and cached
C11_Witness ==
    /\ last.op = "connectServer"
    /\ last.res = "ConnectError"
    /\ Registered # {}
    /\ CacheEntries # {}

\* the connectServer calls for the name n in flight
Connecting(n) == {t \in InFlight : t.op = "connectServer" /\ t.name = n}

\* C12: a connectServer call for a name that is registered creates no
\* client and starts no connection, returns normally in the same step, and
\* leaves the client set, the failed connections and the three caches as
\* they were.
C12_ConnectRegisteredIsNoOp ==
    [][\A n \in Servers : (clients[n] # NoClient /\ Connecting(n) = {})
          => /\ \A t \in BagToSet(tasks') :
                   (t.op = "connectServer" /\ t.name = n) => t \in InFlight
             /\ (last'.op = "connectServer" /\ last'.name = n)
                   => /\ last'.res = "ok"
                      /\ last'.client = NoClient
                      /\ tasks' = tasks
                      /\ manager' = manager]_vars

\* connectServer has returned for a name that was registered, with its
\* capabilities cached
C12_Witness ==
    /\ last.op = "connectServer"
    /\ last.res = "ok"
    /\ last.client = NoClient
    /\ clients[last.name] # NoClient
    /\ clients[last.name] \in CacheEntries

\* C13: disconnectAll never fails, whichever clients reject their
\* disconnect, and when it has completed the client set, the failed
\* connections and the tool, prompt and resource caches are all empty.
C13_DisconnectAllCompletesAndEmpties ==
    /\ \A t \in InFlight : t.op = "disconnectAll" => ENABLED DisconnectAllFinish(t)
    /\ last.op = "disconnectAll"
        => /\ last.res = "ok"
           /\ Registered = {}
           /\ Named(connectionErrors) = {}
           /\ CacheEntries = {}

\* disconnectAll has completed although a client rejected its disconnect
C13_Witness ==
    /\ last.op = "disconnectAll"
    /\ last.res = "ok"
    /\ last.failed # {}

\* the removeClient calls for the name n in flight
Removing(n) == {t \in InFlight : t.op = "removeClient" /\ t.name = n}

\* C14: every removeClient call completes normally, also when the client
\* rejects its disconnect, and then the name has no client and no recorded
\* connection error; a call for a name without a client settles in the same
\* step and changes nothing but the recorded connection error of that name.
C14_RemoveClientNeverFails ==
    [][last'.op = "removeClient"
          => /\ last'.res = "ok"
             /\ clients'[last'.name] = NoClient
             /\ connectionErrors'[last'.name] = NoError
             /\ (clients[last'.name] = NoClient /\ Removing(last'.name) = {})
                   => /\ tasks' = tasks
                      /\ clients' = clients
                      /\ caches' = caches
                      /\ connectionErrors' =
                            [connectionErrors EXCEPT ![last'.name] = NoError]]_vars

\* removeClient has completed although the client rejected its disconnect
C14_Witness ==
    /\ last.op = "removeClient"
    /\ last.res = "ok"
    /\ last.failed = {last.name}
    /\ clients[last.name] = NoClient

\* the calls that are in flight after the step and were not before it
NewInFlight == BagToSet(tasks') \ InFlight
\* the call t went on to the program point pc in the step
WentOn(t, pc) == t \notin BagToSet(tasks') /\ [t EXCEPT !.pc = pc] \in NewInFlight

Publishing == {t \in InFlight : t.op = "connectServer" /\ t.pc # "connecting"}

\* C17: a read of the manager made while a connectServer call is in flight
\* never sees the server of that call registered without its tools cached,
\* nor its tools cached without its prompts and resources (the statement of
\* the claim; the code does not keep it).
C17_RegistrationPublishesAtomically ==
    last.op = "read"
        => \A t \in Publishing :
              LET c == t.client
                  registered == last.seen.clients[t.name] = c
                  toolsCached == \A k \in GetTools(c) : last.seen.tools[k] = c
                  othersCached ==
                      /\ \A k \in ListPrompts(c) : last.seen.prompts[k] = c
                      /\ \A k \in ListResources(c) : last.seen.resources[k] = c
              IN /\ registered => toolsCached
                 /\ (GetTools(c) # {} /\ toolsCached) => othersCached

\* C18: an initializeFromConfig call in flight eventually completes, also
\* when client.connect of one configured server never settles (the
\* statement of the claim; the code does not keep it).
C18_InitializeEventuallyCompletes ==
    (init.st = "running") ~> (init.st = "idle")

\* C19: no call in flight holds up another one.  Whatever else is in flight
\* (an executeTool call waiting for the confirmation or for callTool, a
\* connect attempt that is pending), an executeTool call can be made for
\* every cached tool, every executeTool call in flight can take its next
\* step when its confirmation or its callTool settles, and every connect
\* attempt can take its next step (registration, then the publication of
\* its tools, prompts and resources) when its client call settles.
C19_NoCallBlocksAnother ==
    /\ \A k \in ToolNames :
          (ClientFound(GetToolClient(k)) /\ Room(1)) => ENABLED ExecuteTool(k)
    /\ \A t \in InFlight :
          /\ (t.op = "executeTool" /\ t.pc = "confirming")
                => ENABLED ExecuteToolConfirm(t)
          /\ (t.op = "executeTool" /\ t.pc = "calling")
                => ENABLED ExecuteToolReturn(t)
          /\ (t.op = "connectServer" /\ t.pc = "connecting")
                => ENABLED ConnectSettle(t)
          /\ (t.op = "connectServer" /\ t.pc = "getTools")
                => ENABLED DiscoverTools(t)
          /\ (t.op = "connectServer" /\ t.pc = "listPrompts")
                => ENABLED DiscoverPrompts(t)
          /\ (t.op = "connectServer" /\ t.pc = "listResources")
                => ENABLED DiscoverResources(t)

\* an executeTool call for a tool of one server has returned its result
\* while an executeTool call for a tool of the other server is suspended
C19_Witness ==
    /\ last.op = "executeTool"
    /\ last.res = "result"
    /\ \E t \in InFlight : /\ t.op = "executeTool"
                           /\ t.client[1] # last.client[1]
                           /\ t.client = clients[t.client[1]]
    /\ last.client = clients[last.client[1]]

\* the other state of C19, reachable as well: the connect attempt of docs is
\* pending while fs, of the same initializeFromConfig call, is registered
\* with its tools and prompts published
OtherServerPublishedWhilePending ==
    /\ init.st = "running"
    /\ "docs" \in init.pending
    /\ "fs" \in init.connected
    /\ \E t \in Attempts : t.name = "docs" /\ t.pc = "connecting"
    /\ clients["fs"] # NoClient
    /\ toolToClientMap["read_file"] = clients["fs"]
    /\ promptToClientMap["summarize"] = clients["fs"]

\* the first n tool results appended after the assistant message are those
\* of the first n tool uses, in their order
ResultsInOrder(n) ==
    /\ Len(llm.appended) = 1 + n
    /\ llm.appended[1] = AssistantMessage(llm.toolUses)
    /\ \A j \in 1..n :
          /\ llm.appended[1 + j].role = "tool"
          /\ llm.appended[1 + j].id = llm.toolUses[j].id
          /\ llm.appended[1 + j].name = llm.toolUses[j].name

\* C20: in completeTask, after a response with tool calls the log grows by
\* the assistant message carrying all the calls, then by one tool result
\* per call in the order of the calls: while the k-th tool is executed the
\* results of the first k-1 calls follow the assistant message and nothing
\* else does, and when the next provider call is made, or the loop ends,
\* exactly the results of all the calls follow it.
C20_ToolResultsFollowCallsInOrder ==
    /\ llm.pc = "executeTool" => ResultsInOrder(llm.next - 1)
    /\ (llm.pc = "create" /\ llm.iterationCount > 1)
          => ResultsInOrder(Len(llm.toolUses))
    /\ (llm.pc = "idle" /\ llm.res = "max iterations")
          => ResultsInOrder(Len(llm.toolUses))

\* the provider is called again after a response with two tool calls, the
\* first of which failed
C20_Witness ==
    /\ llm.pc = "create"
    /\ llm.iterationCount = 3
    /\ Len(llm.toolUses) = 2
    /\ llm.appended[2].payload = "error"
    /\ llm.appended[3].payload = "result"

\* C21: when executeTool fails for a tool call, completeTask appends the
\* failure as the tool result of that call and goes on: to executeTool of
\* the next tool use of the response, or to the next provider call, or, when
\* this was the last tool use of the MAX_ITERATIONS-th pass, to the return
\* that ends every such pass.  The failure is not what completeTask returns
\* and is never thrown out of it.
C21_ToolFailureRecordedTurnContinues ==
    [][(llm.pc = "executeTool" /\ llm.next \in llm'.failed)
         => LET toolUse == llm.toolUses[llm.next]
            IN /\ llm'.appended = Append(llm.appended, ToolResult(toolUse, "error"))
               /\ llm'.toolUses = llm.toolUses
               /\ IF llm.next < Len(llm.toolUses)
                  THEN llm'.pc = "executeTool" /\ llm'.next = llm.next + 1
                  ELSE IF llm.iterationCount < MAX_ITERATIONS
                  THEN /\ llm'.pc = "create"
                       /\ llm'.iterationCount = llm.iterationCount + 1
                  ELSE llm'.pc = "idle" /\ llm'.res = "max iterations"]_vars

\* the first of two tool calls failed and the second is being executed
\* with the failure recorded as the result of the first
C21_Witness ==
    /\ llm.pc = "executeTool"
    /\ llm.next = 2
    /\ llm.failed = {1}
    /\ llm.appended[2] = ToolResult(llm.toolUses[1], "error")

C23_FormatterRejectsOrRepairsOrphans ==
    ctx.op = "format" =>
        \A i \in DOMAIN ctx.input :
            HistoryOrphan(ctx.input, i) =>
                \/ ctx.threw
                \/ /\ \A k \in DOMAIN ctx.formatted : ~WireOrphan(ctx.formatted, k)
                   /\ \E k \in DOMAIN ctx.formatted :
                         /\ ctx.formatted[k].role = "tool"
                         /\ ctx.formatted[k].content = ctx.input[i].payload

\* C30: format returns the system prompt as one system message when the
\* prompt is a non-empty string and no such message otherwise, followed by
\* one message per message of the history, in the order of the history and
\* with the role and the content of each; a tool message keeps its call id
\* and its tool name, an assistant message its tool calls; getSystemPrompt
\* returns null.
C30_FormatMapsHistoryInOrder ==
    /\ ctx.op = "getSystemPrompt" => ctx.value = Null
    /\ ctx.op = "format" =>
          LET lead == IF ctx.prompt \in {Null, ""} THEN 0 ELSE 1
          IN /\ ~ctx.threw
             /\ Len(ctx.formatted) = lead + Len(ctx.input)
             /\ lead = 1 => /\ ctx.formatted[1].role = "system"
                            /\ ctx.formatted[1].content = ctx.prompt
             /\ \A j \in DOMAIN ctx.input :
                   LET msg == ctx.input[j]
                       out == ctx.formatted[lead + j]
                   IN /\ out.role = msg.role
                      /\ out.content = msg.payload
                      /\ msg.role = "tool" => /\ out.tool_call_id = msg.id
                                              /\ out.name = msg.name
                      /\ msg.role = "assistant" => out.tool_calls = msg.calls

\* format has returned for a system prompt and a history of a user message,
\* an assistant message with two tool calls and the result of the second
C30_Witness ==
    /\ ctx.op = "format"
    /\ ctx.prompt = "You are Saiki"
    /\ ctx.input = <<UserText("long"), AssistantMessage(<<ReadFile, Search>>),
                     ToolResult(Search, "result")>>
    /\ Len(ctx.formatted) = 4

\* the last call was getFormattedMessagesWithCompression; the number of
\* messages its compression pass removed
Formatted == ctx.op = "getFormattedMessagesWithCompression"
Removed == Len(ctx.history) - Len(ctx.input)

\* C22: whatever messages were appended, no tool message returned by
\* getFormattedMessagesWithCompression has a call id that is the id of no
\* tool call of an assistant message returned before it.
C22_NoOrphanToolMessageReturned ==
    Formatted => \A k \in DOMAIN ctx.formatted : ~WireOrphan(ctx.formatted, k)

\* C24: a compression pass ends and returns messages.  It cuts the history
\* at most once per message; it stops at the first cut whose estimate fits
\* the budget (no earlier cut, and not the uncut history, fitted); and when
\* what it returns is over the budget, no eligible cut is left: the floor
\* is reached and the over-budget messages are returned all the same.
C24_CompressionStopsAtFitOrFloor ==
    Formatted =>
        /\ ~ctx.threw
        /\ ctx.rounds <= Len(ctx.history)
        /\ Removed >= 0
        /\ ctx.input = Drop(ctx.history, Removed)
        /\ ctx.formatted = format(ctx.input, ctx.systemPrompt)
        /\ \/ ctx.tokensUsed <= ctx.maxTokens
           \/ ~\E k \in 1..Len(ctx.input) : Eligible(ctx.input, k)
        /\ \A c \in 0..(Removed - 1) :
              (c = 0 \/ Eligible(ctx.history, c))
                 => Estimate(ctx.systemPrompt, Drop(ctx.history, c)) > ctx.maxTokens

\* a pass has cut the history, has reached the floor and has returned
\* messages whose estimate is over the budget
C24_Witness ==
    /\ Formatted
    /\ ctx.rounds > 0
    /\ ctx.tokensUsed > ctx.maxTokens

\* C25: after a compression pass the estimate of the retained messages is
\* at most the estimate of the history before the pass, and every retained
\* tool result whose assistant tool call was in the history before the
\* pass still has it among the retained messages.
C25_CompressionMonotoneKeepsPairs ==
    Formatted =>
        /\ ctx.tokensUsed <= Estimate(ctx.systemPrompt, ctx.history)
        /\ ctx.tokensUsed = Estimate(ctx.systemPrompt, ctx.input)
        /\ Removed >= 0
        /\ ctx.input = Drop(ctx.history, Removed)
        /\ \A i \in DOMAIN ctx.input :
              HistoryOrphan(ctx.input, i) => HistoryOrphan(ctx.history, Removed + i)

\* a pass has removed the oldest message and has stopped, over the budget,
\* before an assistant message whose tool result is among the most recent
\* messages
C25_Witness ==
    /\ Formatted
    /\ Removed = 1
    /\ ctx.tokensUsed > ctx.maxTokens
    /\ ctx.input = <<AssistantMessage(<<ReadFile>>), ToolResult(ReadFile, "result"),
                     UserText("short")>>

C27_ResetClearsLogKeepsPromptAndBudget ==
    [][ctx'.op = "reset"
         => /\ ctx'.history = <<>>
            /\ ctx'.systemPrompt = ctx.systemPrompt
            /\ ctx'.maxTokens = ctx.maxTokens
            /\ \E e \in DOMAIN ctx'.emitted :
                  ctx'.emitted[e].event = "llmservice:conversationReset"
            /\ \E e \in DOMAIN ctx'.emitted :
                  ctx'.emitted[e].event = "saiki:conversationReset"
            /\ \A e \in DOMAIN ctx'.emitted : ctx'.emitted[e].logLen = 0]_vars

\* the conversation of an AnthropicService has been reset when its log
\* held three messages: the manager has its prompt and its budget and both
\* notifications were emitted
C27_Witness ==
    /\ ctx.op = "reset"
    /\ ctx.cleared = 3
    /\ ctx.path = "AnthropicService"
    /\ ctx.history = <<>>
    /\ ctx.maxTokens = WithMargin(ctx.modelMax)
    /\ ctx.systemPrompt = "You are Saiki"
    /\ Len(ctx.emitted) = 2

\* C28: whichever code creates the manager of a conversation, the budget
\* it gives to the manager is floor(0.9 x M), M being the maximum token
\* count of the model, and so is at most M.
C28_BudgetIsNineTenthsOfModelMax ==
    ctx.path # "none" =>
        /\ 10 * ctx.maxTokens <= 9 * ctx.modelMax
        /\ 9 * ctx.modelMax < 10 * (ctx.maxTokens + 1)
        /\ ctx.maxTokens <= ctx.modelMax

\* C31: when executeTool issues client.callTool, the client it calls is
\* registered with the manager at that moment, whatever removeClient or
\* disconnectAll calls ran while the confirmation was awaited.
C31_CallToolOnlyOnRegisteredClient ==
    [][\A t \in NewInFlight :
          (t.op = "executeTool" /\ t.pc = "calling")
             => t.client \in RegisteredClients]_vars

\* C32: once every connectServer call for a name has settled, the name is
\* registered if a call succeeded (the call that settled last did, or a call
\* has cached entries for the server), and every cache entry written for
\* the server maps to the client registered under the name.
C32_ConcurrentConnectsAgree ==
    \A n \in Servers :
        Connecting(n) = {} =>
            /\ (last.op = "connectServer" /\ last.name = n /\ last.res = "ok")
                  => clients[n] # NoClient
            /\ \A c \in CacheEntries : c[1] = n => c = clients[n]

\* C33: no server name is at once registered as a client and present in
\* the failed-connections map; in particular a name whose connection
\* failed earlier has no recorded error once it is registered.
C33_RegisteredNamesHaveNoError ==
    \A n \in Servers : clients[n] # NoClient => connectionErrors[n] = NoError

\* fs has just been registered by a connectServer call that succeeded
\* while the failure of docs is recorded
C33_Witness ==
    /\ last.op = "connectServer"
    /\ last.name = "fs"
    /\ last.res = "ok"
    /\ clients["fs"] = last.client
    /\ connectionErrors["fs"] = NoError
    /\ connectionErrors["docs"] # NoError

\* C34: once client.connect has succeeded, a connectServer call awaited by
\* its caller resolves whatever discovery does: in every step it takes from
\* then on the server stays registered with its client and has no recorded
\* error, and when it settles it settles normally.  When it settles because
\* tool discovery failed, no tool, prompt or resource cache entry maps to
\* its client; once tool discovery has succeeded, the tools the client
\* listed stay mapped to it whatever prompt and resource discovery do.
C34_DiscoveryFailureStillResolves ==
    [][\A t \in InFlight :
          (/\ t.op = "connectServer" /\ ~t.parent
           /\ t.pc \in {"getTools", "listPrompts", "listResources"}
           /\ t \notin BagToSet(tasks'))
             => /\ clients'[t.name] = t.client
                /\ connectionErrors'[t.name] = NoError
                /\ \/ WentOn(t, "listPrompts") \/ WentOn(t, "listResources")
                   \/ /\ tasks' = Finished(t)
                      /\ last'.op = "connectServer"
                      /\ last'.client = t.client
                      /\ last'.res = "ok"
                /\ (t.pc = "getTools" /\ tasks' = Finished(t))
                      => t.client \notin CacheEntries'
                /\ t.pc # "getTools"
                      => \A k \in GetTools(t.client) : toolToClientMap'[k] = t.client]_vars

\* connectServer("fs") has resolved although the tool discovery of fs
\* failed: fs is registered, has no recorded error and nothing is cached
\* for its client
C34_Witness ==
    /\ last.op = "connectServer"
    /\ last.name = "fs"
    /\ last.res = "ok"
    /\ clients["fs"] = last.client
    /\ last.client # NoClient
    /\ connectionErrors["fs"] = NoError
    /\ last.client \notin CacheEntries

\* the other case of C34: connectServer("fs") has resolved with the tools of
\* fs cached although its prompt discovery failed
ToolsCachedWithoutPrompts ==
    /\ last.op = "connectServer"
    /\ last.name = "fs"
    /\ last.res = "ok"
    /\ \A k \in ToolsOf("fs") : toolToClientMap[k] = last.client
    /\ promptToClientMap["summarize"] # last.client

\* the servers of a finished initializeFromConfig that were configured
\* without a connection mode and failed to connect
UnsetFailed(r) == {n \in Servers : r.mode[n] = "unset" /\ r.connFailed[n] # NoError}

EmptyConfigReturned ==
    /\ last.op = "initializeFromConfig"
    /\ Configured(last.mode) = {}
    /\ Registered # {}

\* C36: in what completeTask emits, every 'llmservice:toolCall' is directly
\* followed by one 'llmservice:toolResult' for the same tool, or is the
\* last event while executeTool of that tool use is awaited; and every
\* 'llmservice:toolResult' directly follows the toolCall of its tool.  So
\* no toolCall or thinking event comes between a toolCall and its result,
\* and no toolCall has two results, whether executeTool resolved or
\* rejected.
C36_ToolCallThenOneToolResult ==
    \A i \in 1..Len(llm.events) :
        /\ llm.events[i].type = "llmservice:toolCall"
              => IF i = Len(llm.events)
                 THEN /\ llm.pc = "executeTool"
                      /\ llm.toolUses[llm.next].name = llm.events[i].tool
                 ELSE /\ llm.events[i + 1].type = "llmservice:toolResult"
                      /\ llm.events[i + 1].tool = llm.events[i].tool
        /\ llm.events[i].type = "llmservice:toolResult"
              => /\ i > 1
                 /\ llm.events[i - 1].type = "llmservice:toolCall"
                 /\ llm.events[i - 1].tool = llm.events[i].tool

\* a tool use whose executeTool rejected has had its toolCall and its
\* toolResult, and the toolCall of the next tool use has followed
C36_Witness ==
    /\ Len(llm.events) >= 3
    /\ llm.events[1].type = "llmservice:toolCall"
    /\ llm.events[2].type = "llmservice:toolResult"
    /\ llm.events[2].tool = llm.events[1].tool
    /\ llm.events[2].payload = "error"
    /\ llm.events[3].type = "llmservice:toolCall"

\* C37: a completeTask call that has finished has emitted exactly one
\* terminal event, 'llmservice:response' or 'llmservice:error', and a call
\* that has not finished has emitted none.
C37_ExactlyOneTerminalEvent ==
    /\ (llm.pc = "idle" /\ llm.res # "none")
          => llm.terminal \in {<<"llmservice:response">>, <<"llmservice:error">>}
    /\ llm.pc # "idle" => llm.terminal = <<>>

\* C38: a switchLLM that threw has left the agent's LLM service and the
\* stored LLM config as they were before the call; a switchLLM that
\* returned has put the new service and the new config in place, the
\* service holding the message manager the agent had before.
C38_SwitchLLMAllOrNothing ==
    [][\A newLLMConfig \in LLMConfigs, router \in Routers :
          SwitchLLM(newLLMConfig, router)
             => /\ agent'.res = "threw"
                      => /\ agent'.llmService = agent.llmService
                         /\ agent'.llmConfig = agent.llmConfig
                /\ agent'.res = "ok"
                      => /\ agent'.llmService =
                               Service(newLLMConfig, router, agent.messageManager)
                         /\ agent'.llmConfig = newLLMConfig
                         /\ agent'.messageManager = agent.messageManager]_vars

\* C39: a store of content whose blob is already in the store of a
\* connected backend returns normally, with the id derived from the content
\* and the metadata written when the blob was first stored, and leaves the
\* count and the total size of the stored blobs as they were.
C39_StoringStoredContentIsIdempotent ==
    [][\A input \in Buffers, metadata \in Metadatas :
          (/\ blob.connected
           /\ blob.dat[Hash(input)] = <<input>>
           /\ blob.meta[Hash(input)] # NoFile
           /\ Store(input, metadata))
             => /\ blob'.last.res = "ok"
                /\ blob'.last.id = Hash(input)
                /\ blob'.last.metadata = blob.meta[Hash(input)][1]
                /\ GetStats(blob') = GetStats(blob)]_vars

====
